---------------------------- MODULE Spec2Model ----------------------------
(***************************************************************************)
(* A model of scripts/compliance-checker.py: the rule provider, the        *)
(* repository inspector, the report aggregator, the label synchronizer,    *)
(* the responsible-user resolver, the issue publisher and the main run.    *)
(*                                                                         *)
(* Text is modelled so that the string operations of the script can be     *)
(* computed: a name (organization, repository, login) is a sequence of     *)
(* one-character strings; a violation message is the sequence of its       *)
(* whitespace-delimited words.                                             *)
(***************************************************************************)
EXTENDS Integers, Sequences, FiniteSets, TLC

(***************************************************************************)
(* Characters and the str methods the script uses.                         *)
(***************************************************************************)
UpperLetters == <<"A","B","C","D","E","F","G","H","I","J","K","L","M",
                  "N","O","P","Q","R","S","T","U","V","W","X","Y","Z">>
LowerLetters == <<"a","b","c","d","e","f","g","h","i","j","k","l","m",
                  "n","o","p","q","r","s","t","u","v","w","x","y","z">>
DigitChars == {"0","1","2","3","4","5","6","7","8","9"}

Range(s) == {s[i] : i \in DOMAIN s}

\* None
None == <<>>

\* str.lower() on one character
LowerChar(c) ==
    IF \E i \in DOMAIN UpperLetters : UpperLetters[i] = c
    THEN LowerLetters[CHOOSE i \in DOMAIN UpperLetters : UpperLetters[i] = c]
    ELSE c

\* str.lower()
Lower(s) == [i \in DOMAIN s |-> LowerChar(s[i])]

\* str.startswith(prefix)
StartsWith(s, prefix) ==
    /\ Len(prefix) <= Len(s)
    /\ SubSeq(s, 1, Len(prefix)) = prefix

\* whether sub occurs in s as a contiguous substring (Python's `sub in s`)
Contains(s, sub) ==
    \E i \in 1..(Len(s) - Len(sub) + 1) : SubSeq(s, i, i + Len(sub) - 1) = sub

\* str.strip(): leading and trailing blanks removed
RECURSIVE LStrip(_)
LStrip(s) == IF s # <<>> /\ Head(s) = " " THEN LStrip(Tail(s)) ELSE s
RECURSIVE RStrip(_)
RStrip(s) == IF s # <<>> /\ s[Len(s)] = " " THEN RStrip(SubSeq(s, 1, Len(s) - 1)) ELSE s
Strip(s) == RStrip(LStrip(s))

\* list[:n]
Take(s, n) == SubSeq(s, 1, IF Len(s) < n THEN Len(s) ELSE n)

\* any(x in s)
InSeq(x, s) == \E i \in DOMAIN s : s[i] = x

(***************************************************************************)
(* re.match(pattern, name, re.IGNORECASE) for the three naming patterns.   *)
(* A pattern is [head, items]: head is the set of alternatives of the      *)
(* leading literal (one empty alternative when there is none), items the   *)
(* rest: each a character class, taken once (a literal character) or one   *)
(* or more times (cls+).  The pattern is anchored at both ends (^ by       *)
(* re.match, $ by the pattern; names hold no line break).                  *)
(***************************************************************************)
ClsLower == Range(LowerLetters)
ClsLowerDigit == ClsLower \cup DigitChars
ClsLowerDigitDash == ClsLowerDigit \cup {"-"}

Lit(c) == [cls |-> {c}, many |-> FALSE]
Plus(cls) == [cls |-> cls, many |-> TRUE]

\* [a-z0-9]+-[a-z0-9-]+ preceded by a dash: the tail all three patterns share
PatternTail == <<Lit("-"), Plus(ClsLowerDigit), Lit("-"), Plus(ClsLowerDigitDash)>>

\* one character against a class, with or without re.IGNORECASE
CharMatches(c, cls, ignorecase) ==
    IF ignorecase
    THEN \E d \in cls : LowerChar(d) = LowerChar(c)
    ELSE c \in cls

RECURSIVE MatchItems(_, _, _, _, _)
\* items[k..] match s[j..] up to the end of s
MatchItems(items, k, s, j, ignorecase) ==
    IF k > Len(items) THEN j > Len(s)
    ELSE IF j > Len(s) THEN FALSE
    ELSE /\ CharMatches(s[j], items[k].cls, ignorecase)
         /\ \/ MatchItems(items, k + 1, s, j + 1, ignorecase)
            \/ /\ items[k].many
               /\ MatchItems(items, k, s, j + 1, ignorecase)

LitMatches(s, lit, ignorecase) ==
    /\ Len(lit) <= Len(s)
    /\ IF ignorecase
       THEN Lower(SubSeq(s, 1, Len(lit))) = Lower(lit)
       ELSE SubSeq(s, 1, Len(lit)) = lit

ReMatch(pattern, s, ignorecase) ==
    \E lit \in pattern.head :
        /\ LitMatches(s, lit, ignorecase)
        /\ MatchItems(pattern.items, 1, s, Len(lit) + 1, ignorecase)

(***************************************************************************)
(* Rule provider                                                           *)
(***************************************************************************)
FinastraDemo == <<"f","i","n","a","s","t","r","a","-","d","e","m","o">>
ArctiqTeam == <<"a","r","c","t","i","q","t","e","a","m">>
ArctiqDashTeam == <<"a","r","c","t","i","q","-","t","e","a","m">>

PrefixFD == <<"F","D","-">>
ArctiqPrefixes == << <<"a","-">>, <<"e","-">>, <<"t","-">>, <<"p","-">>,
                     <<"a","c","t","i","o","n","-">>,
                     <<"c","o","l","l","a","b","-">> >>
GenericPrefixes == << <<"a","-">>, <<"e","-">>, <<"t","-">>, <<"p","-">> >>

\* ^FD-[a-z0-9]+-[a-z0-9-]+$
PatternFD == [head |-> {<<"F","D">>}, items |-> PatternTail]
\* ^(a|e|t|p|action|collab)-[a-z0-9]+-[a-z0-9-]+$
PatternArctiq ==
    [head |-> {<<"a">>, <<"e">>, <<"t">>, <<"p">>,
               <<"a","c","t","i","o","n">>, <<"c","o","l","l","a","b">>},
     items |-> PatternTail]
\* ^[a-z]+-[a-z0-9]+-[a-z0-9-]+$
PatternGeneric == [head |-> {<<>>}, items |-> <<Plus(ClsLower)>> \o PatternTail]

RulesFinastra ==
    [required_prefix |-> PrefixFD,
     naming_pattern |-> PatternFD,
     description |-> "Finastra Demo organization rules - all repos must start with FD-"]
RulesArctiq ==
    [required_prefixes |-> ArctiqPrefixes,
     naming_pattern |-> PatternArctiq,
     description |-> "Arctiq Team organization rules - prefixed naming convention"]
RulesGeneric ==
    [required_prefixes |-> GenericPrefixes,
     naming_pattern |-> PatternGeneric,
     description |-> "Generic organization rules - standard prefixed naming"]

\* get_compliance_rules with the first comparison made on the lower-cased name
get_compliance_rules_lowercased(org_name) ==
    IF Lower(org_name) = FinastraDemo THEN RulesFinastra
    ELSE IF Lower(org_name) \in {ArctiqTeam, ArctiqDashTeam} THEN RulesArctiq
    ELSE RulesGeneric

get_compliance_rules(org_name) ==
    IF org_name = FinastraDemo THEN RulesFinastra
    ELSE IF Lower(org_name) \in {ArctiqTeam, ArctiqDashTeam} THEN RulesArctiq
    ELSE RulesGeneric


(***************************************************************************)
(* Repository inspector.  A repository snapshot `repo` holds the           *)
(* attributes the checks read and the outcome of every host call they      *)
(* make:                                                                   *)
(*   meta_ok        FALSE when reading the repository's attributes raises  *)
(*   name, owner    sequences of characters                                *)
(*   private, archived, size (KB), language ("" for None)                  *)
(*   description    [none, text]: None, or a sequence of characters        *)
(*   pushed_at, created_at   hours on the clock; pushed_at = -1 for None   *)
(*   default_branch a string, "" for None                                  *)
(*   branch         what get_branch / get_protection give                  *)
(*   files          path -> number of characters of the decoded content,   *)
(*                  -1 when get_contents (or the decoding) raises          *)
(*   topics         number of topics, -1 when get_topics raises            *)
(***************************************************************************)
ReadmeFiles == <<"README.md", "README.rst", "README.txt", "readme.md", "Readme.md">>
LicenseFiles == <<"LICENSE", "LICENSE.md", "LICENSE.txt", "license", "License">>
CodeownersLocations == <<"CODEOWNERS", ".github/CODEOWNERS", "docs/CODEOWNERS">>
Paths == Range(ReadmeFiles) \cup {".gitignore"} \cup Range(LicenseFiles)
            \cup Range(CodeownersLocations)

ReadmeMinChars == 100
DescriptionMinChars == 10
StaleDays == 180
InactiveDays == 365
MinimalSizeKB == 10
HoursPerDay == 24

\* the characters of a name as one word of a message
RECURSIVE Str(_)
Str(cs) == IF cs = <<>> THEN "" ELSE Head(cs) \o Str(Tail(cs))

\* ", ".join(words), as the words the joined text splits into
RECURSIVE JoinComma(_)
JoinComma(ws) ==
    IF Len(ws) <= 1 THEN ws
    ELSE <<Head(ws) \o ",">> \o JoinComma(Tail(ws))

UrlPrefix == <<"h","t","t","p","s",":","/","/","g","i","t","h","u","b",".","c","o","m","/">>
HtmlUrl(repo) == UrlPrefix \o repo.owner \o <<"/">> \o repo.name

\* a step that records the violation and no label
ReportUnlabelled(issues, violation, label) ==
    [issues EXCEPT !.violations = Append(@, violation)]

\* issues['violations'].append(v); issues['labels'].append(l)
Report(issues, violation, label) ==
    [issues EXCEPT !.violations = Append(@, violation),
                   !.labels = Append(@, label)]

\* a search that goes past a readable file that is too short: the first
\* candidate of at least ReadmeMinChars characters when there is one, the
\* first readable one otherwise
BestReadable(repo, candidates) ==
    IF \E i \in DOMAIN candidates : repo.files[candidates[i]] >= ReadmeMinChars
    THEN CHOOSE i \in DOMAIN candidates :
            /\ repo.files[candidates[i]] >= ReadmeMinChars
            /\ \A j \in 1..(i - 1) : repo.files[candidates[j]] < ReadmeMinChars
    ELSE IF \E i \in DOMAIN candidates : repo.files[candidates[i]] >= 0
    THEN CHOOSE i \in DOMAIN candidates :
            /\ repo.files[candidates[i]] >= 0
            /\ \A j \in 1..(i - 1) : repo.files[candidates[j]] < 0
    ELSE 0

\* the index of the first readable file among candidates, 0 when none is
FirstReadable(repo, candidates) ==
    IF \E i \in DOMAIN candidates : repo.files[candidates[i]] >= 0
    THEN CHOOSE i \in DOMAIN candidates :
            /\ repo.files[candidates[i]] >= 0
            /\ \A j \in 1..(i - 1) : repo.files[candidates[j]] < 0
    ELSE 0

\* a prefix test that lower-cases the prefix before it compares
NameStartsWithLowered(name, prefix) == StartsWith(name, Lower(prefix))

\* repo.name.startswith(prefix): letter case counts
NameStartsWith(name, prefix) == StartsWith(name, prefix)

\* a pattern test without re.IGNORECASE
NameMatchesCaseSensitive(pattern, name) == ReMatch(pattern, name, FALSE)

\* re.match(pattern, repo.name, re.IGNORECASE)
NameMatches(pattern, name) == ReMatch(pattern, name, TRUE)

check_naming_convention(repo, rules, issues) ==
    LET afterPrefix ==
            IF "required_prefix" \in DOMAIN rules
            THEN IF ~NameStartsWith(repo.name, rules.required_prefix)
                 THEN Report(issues,
                        <<"Repository", "name", "must", "start", "with",
                          "\"" \o Str(rules.required_prefix) \o "\"">>,
                        "naming:missing-prefix")
                 ELSE issues
            ELSE IF "required_prefixes" \in DOMAIN rules
            THEN IF ~\E i \in DOMAIN rules.required_prefixes :
                        NameStartsWith(repo.name, rules.required_prefixes[i])
                 THEN Report(issues,
                        <<"Repository", "name", "must", "start", "with", "one", "of:">>
                          \o JoinComma([i \in DOMAIN rules.required_prefixes |->
                                            Str(rules.required_prefixes[i])]),
                        "naming:missing-prefix")
                 ELSE issues
            ELSE issues
    IN  IF "naming_pattern" \in DOMAIN rules
           /\ ~NameMatches(rules.naming_pattern, repo.name)
        THEN Report(afterPrefix,
               <<"Repository", "name", "does", "not", "follow", "naming", "pattern">>,
               "naming:non-compliant")
        ELSE afterPrefix

\* a LICENSE demanded of private repositories too
LicenseRequiredAlways(repo) == TRUE

\* line 912: the LICENSE check is made on public repositories only
LicenseRequired(repo) == ~repo.private

check_required_files(repo, issues) ==
    LET r == FirstReadable(repo, ReadmeFiles)
        readme_found == r > 0 /\ repo.files[ReadmeFiles[r]] >= ReadmeMinChars
        afterLoop ==
            IF r > 0 /\ ~readme_found
            THEN Report(issues,
                   <<ReadmeFiles[r], "file", "is", "too", "short", "(<", "100",
                     "characters)">>,
                   "missing:readme")
            ELSE issues
        afterReadme ==
            IF ~readme_found /\ ~InSeq("missing:readme", afterLoop.labels)
            THEN Report(afterLoop, <<"No", "README", "file", "found">>, "missing:readme")
            ELSE afterLoop
        afterGitignore ==
            IF repo.files[".gitignore"] < 0
            THEN Report(afterReadme, <<"No", ".gitignore", "file", "found">>,
                        "missing:gitignore")
            ELSE afterReadme
        afterLicense ==
            IF LicenseRequired(repo) /\ FirstReadable(repo, LicenseFiles) = 0
            THEN Report(afterGitignore,
                   <<"No", "LICENSE", "file", "found", "(required", "for", "public",
                     "repositories)">>,
                   "missing:license")
            ELSE afterGitignore
    IN  IF FirstReadable(repo, CodeownersLocations) = 0
        THEN Report(afterLicense, <<"No", "CODEOWNERS", "file", "found">>,
                    "missing:codeowners")
        ELSE afterLicense

\* a branch check that takes unreadable protection details for missing
\* status checks
check_branch_protection_strict(repo, issues) ==
    IF repo.default_branch = "" THEN issues
    ELSE IF repo.branch = "unreadable"
    THEN Report(issues,
           <<"Cannot", "access", "default", "branch:", repo.default_branch>>,
           "security:branch-access-error")
    ELSE IF repo.branch = "unprotected"
    THEN Report(issues, <<"Default", "branch", "has", "no", "protection", "rules">>,
                "security:no-branch-protection")
    ELSE IF repo.branch \in {"protected_no_checks", "protected_unreadable"}
    THEN Report(issues,
           <<"Branch", "protection", "lacks", "required", "status", "checks">>,
           "security:insufficient-protection")
    ELSE issues

\* repo.branch: "unreadable" (get_branch raises), "unprotected",
\* "protected_no_checks", "protected_checks", "protected_unreadable"
\* (get_protection raises)
check_branch_protection(repo, issues) ==
    IF repo.default_branch = "" THEN issues
    ELSE IF repo.branch = "unreadable"
    THEN Report(issues,
           <<"Cannot", "access", "default", "branch:", repo.default_branch>>,
           "security:branch-access-error")
    ELSE IF repo.branch = "unprotected"
    THEN Report(issues, <<"Default", "branch", "has", "no", "protection", "rules">>,
                "security:no-branch-protection")
    ELSE IF repo.branch = "protected_no_checks"
    THEN Report(issues,
           <<"Branch", "protection", "lacks", "required", "status", "checks">>,
           "security:insufficient-protection")
    ELSE issues

check_repository_description(repo, issues) ==
    IF \/ repo.description.none
       \/ repo.description.text = <<>>
       \/ Len(Strip(repo.description.text)) < DescriptionMinChars
    THEN Report(issues,
           <<"Repository", "description", "missing", "or", "too", "short", "(<", "10",
             "characters)">>,
           "missing:description")
    ELSE issues

\* the difference taken the wrong way round
DaysSincePushReversed(repo, now) == (repo.pushed_at - now) \div HoursPerDay

\* (now - pushed_at).days: whole days, rounded down
DaysSincePush(repo, now) == (now - repo.pushed_at) \div HoursPerDay

\* a stale tier that starts at StaleDays days
IsStaleFrom(days_since_push) == days_since_push >= StaleDays

\* line 1000: more than StaleDays days
IsStale(days_since_push) == days_since_push > StaleDays

check_activity_status(repo, now, issues) ==
    IF repo.pushed_at >= 0
    THEN LET days_since_push == DaysSincePush(repo, now)
         IN  IF days_since_push > InactiveDays
             THEN Report(issues,
                    <<"Repository", "inactive", "for", ToString(days_since_push),
                      "days", "(1+", "years)">>,
                    "activity:archived")
             ELSE IF IsStale(days_since_push)
             THEN Report(issues,
                    <<"Repository", "stale", "for", ToString(days_since_push),
                      "days", "(6+", "months)">>,
                    "activity:stale")
             ELSE issues
    ELSE Report(issues, <<"Repository", "has", "never", "been", "pushed", "to">>,
                "activity:never-used")

check_repository_quality(repo, issues) ==
    LET afterSize ==
            IF repo.size = 0
            THEN Report(issues, <<"Repository", "appears", "to", "be", "empty">>,
                        "quality:empty")
            ELSE IF repo.size < MinimalSizeKB
            THEN Report(issues,
                   <<"Repository", "has", "minimal", "content", "(<", "10KB)">>,
                   "quality:minimal")
            ELSE issues
    IN  IF repo.topics = 0
        THEN Report(afterSize,
               <<"Repository", "has", "no", "topics", "for", "discoverability">>,
               "missing:topics")
        ELSE afterSize

\* the checks check_repository_compliance runs, in order: none once the
\* repository is archived
ChecksAlways ==
    <<"naming", "files", "branch", "description", "activity", "quality">>
\* ChecksFor without the early return for archived repositories
ChecksForNoSkip(repo) == ChecksAlways
ChecksFor(repo) == IF repo.archived THEN <<>> ELSE ChecksAlways

RunCheck(check, repo, rules, now, issues) ==
    CASE check = "naming" -> check_naming_convention(repo, rules, issues)
      [] check = "files" -> check_required_files(repo, issues)
      [] check = "branch" -> check_branch_protection(repo, issues)
      [] check = "description" -> check_repository_description(repo, issues)
      [] check = "activity" -> check_activity_status(repo, now, issues)
      [] check = "quality" -> check_repository_quality(repo, issues)

RECURSIVE RunChecks(_, _, _, _, _)
RunChecks(checks, repo, rules, now, issues) ==
    IF checks = <<>> THEN issues
    ELSE RunChecks(Tail(checks), repo, rules, now,
                   RunCheck(Head(checks), repo, rules, now, issues))

NewIssues(repo) ==
    [name |-> repo.name,
     url |-> HtmlUrl(repo),
     visibility |-> IF repo.private THEN "private" ELSE "public",
     violations |-> <<>>,
     labels |-> <<>>,
     size |-> repo.size,
     language |-> IF repo.language = "" THEN "Unknown" ELSE repo.language,
     last_push |-> repo.pushed_at,
     created_at |-> repo.created_at,
     default_branch |-> repo.default_branch,
     archived |-> repo.archived]

\* [raised, issues, ran]: the result record, and as a trace the checks that ran;
\* raised when reading the repository's attributes raises
Raised == [raised |-> TRUE]
check_repository_compliance(repo, rules, now) ==
    IF ~repo.meta_ok THEN Raised
    ELSE [raised |-> FALSE,
          issues |-> RunChecks(ChecksFor(repo), repo, rules, now, NewIssues(repo)),
          ran |-> ChecksFor(repo)]


(***************************************************************************)
(* Report aggregator.  A dict is a sequence of [key, count] pairs in the   *)
(* order in which the keys were inserted (the order Python iterates it     *)
(* in).  The compliance rate is kept in tenths of a percent.               *)
(***************************************************************************)
TopViolations == 10
SmallSizeKB == 100
MediumSizeKB == 1000

\* str.lower() on the first word of a violation message
WordLower(w) ==
    CASE w = "Repository" -> "repository"
      [] w = "No" -> "no"
      [] w = "Cannot" -> "cannot"
      [] w = "Default" -> "default"
      [] w = "Branch" -> "branch"
      [] w = "README.md" -> "readme.md"
      [] w = "README.rst" -> "readme.rst"
      [] w = "README.txt" -> "readme.txt"
      [] w = "Readme.md" -> "readme.md"
      [] OTHER -> w

\* dict.get(key, 0)
Get(dict, key) ==
    IF \E i \in DOMAIN dict : dict[i].key = key
    THEN dict[CHOOSE i \in DOMAIN dict : dict[i].key = key].count
    ELSE 0

\* Increment that stores 1 whether or not the key is already counted
IncrementForgetful(dict, key) ==
    IF \E i \in DOMAIN dict : dict[i].key = key
    THEN [i \in DOMAIN dict |->
            IF dict[i].key = key THEN [key |-> key, count |-> 1] ELSE dict[i]]
    ELSE Append(dict, [key |-> key, count |-> 1])

\* dict[key] = dict.get(key, 0) + 1
Increment(dict, key) ==
    IF \E i \in DOMAIN dict : dict[i].key = key
    THEN [i \in DOMAIN dict |->
            IF dict[i].key = key
            THEN [key |-> key, count |-> dict[i].count + 1]
            ELSE dict[i]]
    ELSE Append(dict, [key |-> key, count |-> 1])

\* the loop over the keys of one list (violations mapped to their
\* categories, or labels), counting each
RECURSIVE CountAll(_, _)
CountAll(dict, keys) ==
    IF keys = <<>> THEN dict
    ELSE CountAll(Increment(dict, Head(keys)), Tail(keys))

\* violation.split()[0].lower()
Category(violation) == WordLower(violation[1])
Categories(violations) == [i \in DOMAIN violations |-> Category(violations[i])]

RECURSIVE CountCategories(_, _)
CountCategories(dict, issues) ==
    IF issues = <<>> THEN dict
    ELSE CountCategories(CountAll(dict, Categories(Head(issues).violations)),
                         Tail(issues))

RECURSIVE CountLabels(_, _)
CountLabels(dict, issues) ==
    IF issues = <<>> THEN dict
    ELSE CountLabels(CountAll(dict, Head(issues).labels), Tail(issues))

SizeBucket(size) ==
    IF size = 0 THEN "empty"
    ELSE IF size < SmallSizeKB THEN "small"
    ELSE IF size < MediumSizeKB THEN "medium"
    ELSE "large"

\* the number of results of one visibility, of one size bucket
CountVisibility(issues, v) ==
    Cardinality({i \in DOMAIN issues : issues[i].visibility = v})
CountBucket(issues, b) ==
    Cardinality({i \in DOMAIN issues : SizeBucket(issues[i].size) = b})

RepoAnalysis(issues) ==
    [by_visibility |-> [public |-> CountVisibility(issues, "public"),
                        private |-> CountVisibility(issues, "private")],
     by_language |-> CountAll(<<>>, [i \in DOMAIN issues |-> issues[i].language]),
     by_size |-> [empty |-> CountBucket(issues, "empty"),
                  small |-> CountBucket(issues, "small"),
                  medium |-> CountBucket(issues, "medium"),
                  large |-> CountBucket(issues, "large")]]

\* sorted(items, key=lambda x: x[1], reverse=True): a stable sort, the items
\* of equal count keep their order
RECURSIVE InsertByCount(_, _)
InsertByCount(sorted, item) ==
    IF sorted = <<>> THEN <<item>>
    ELSE IF Head(sorted).count >= item.count
    THEN <<Head(sorted)>> \o InsertByCount(Tail(sorted), item)
    ELSE <<item>> \o sorted

\* a descending sort that puts the items of equal count in the reverse of
\* their order
RECURSIVE SortedByCountTiesReversed(_)
SortedByCountTiesReversed(items) ==
    IF items = <<>> THEN <<>>
    ELSE InsertByCount(SortedByCountTiesReversed(Tail(items)), Head(items))

RECURSIVE SortedByCount(_)
SortedByCount(items) ==
    IF items = <<>> THEN <<>>
    ELSE InsertByCount(SortedByCount(SubSeq(items, 1, Len(items) - 1)),
                       items[Len(items)])

\* round(x, 1) of x = num / den * 100 (den > 0), in tenths: to the nearest
\* tenth, a tie to the even one
RoundTenths(num, den) ==
    LET q == (1000 * num) \div den
        r == (1000 * num) % den
    IN  IF 2 * r > den THEN q + 1
        ELSE IF 2 * r < den THEN q
        ELSE IF q % 2 = 0 THEN q ELSE q + 1

\* ComplianceRate giving 0 rather than 100 when there is no repository
ComplianceRateZeroWhenEmpty(compliant_repos, total_repos) ==
    IF total_repos > 0 THEN RoundTenths(compliant_repos, total_repos) ELSE 0

ComplianceRate(compliant_repos, total_repos) ==
    IF total_repos > 0 THEN RoundTenths(compliant_repos, total_repos) ELSE 1000

\* every violation message has a first word (else split()[0] raises)
Splittable(issues) ==
    \A i \in DOMAIN issues :
        \A j \in DOMAIN issues[i].violations : issues[i].violations[j] # <<>>

generate_compliance_report(org, issues, total_repos, clock) ==
    IF ~Splittable(issues) THEN Raised
    ELSE
    LET compliant_repos == total_repos - Len(issues)
        issue_categories == CountCategories(<<>>, issues)
    IN  [raised |-> FALSE,
         metadata |->
            [organization |-> org,
             scan_date |-> clock,
             generated_by |-> "Repository Compliance Checker v3.0 with Auto-Assignment",
             total_repositories_scanned |-> total_repos],
         summary |->
            [total_repositories |-> total_repos,
             compliant_repositories |-> compliant_repos,
             non_compliant_repositories |-> Len(issues),
             compliance_rate |-> ComplianceRate(compliant_repos, total_repos)],
         analysis |->
            [issue_categories |-> issue_categories,
             label_distribution |-> CountLabels(<<>>, issues),
             repository_analysis |-> RepoAnalysis(issues),
             top_violations |-> Take(SortedByCount(issue_categories), TopViolations)],
         repositories |-> issues]

(***************************************************************************)
(* Label synchronizer.  The labels of a repository are a set of names;     *)
(* every iteration of the loop makes up to two host calls, and             *)
(* outcomes[k] says how those of the k-th iteration end: "ok",             *)
(* "get_labels_raises" or "create_label_raises".                           *)
(***************************************************************************)
HostOutcomes == {"ok", "get_labels_raises", "create_label_raises"}

\* label_colors.get(label_name, '6a737d')
LabelColor(label_name) ==
    CASE label_name \in {"naming:missing-prefix", "naming:non-compliant",
                         "security:insufficient-protection", "activity:stale"}
            -> "f66a0a"
      [] label_name \in {"missing:readme", "missing:gitignore",
                         "security:no-branch-protection"}
            -> "d73a49"
      [] label_name \in {"missing:license", "missing:codeowners",
                         "missing:description", "missing:topics"}
            -> "fbca04"
      [] label_name = "activity:archived" -> "24292e"
      [] OTHER -> "6a737d"

\* repo.create_label(label_name, color, description) as issued, and whether
\* it succeeded
CreateLabelCall(label_name, ok) ==
    [label |-> label_name, color |-> LabelColor(label_name), ok |-> ok]

\* a loop body that creates the label whatever get_labels returned
MustCreateAlways(label_name, existing) == TRUE

\* whether the loop body creates the label: only when it is not among the
\* labels get_labels returned
MustCreate(label_name, existing) == label_name \notin existing

RECURSIVE ApplyLoop(_, _, _, _)
\* st = [existing, creates, success_count] before the k-th iteration
ApplyLoop(st, labels, outcomes, k) ==
    IF k > Len(labels) THEN st
    ELSE IF outcomes[k] = "get_labels_raises"
    THEN ApplyLoop(st, labels, outcomes, k + 1)
    ELSE IF MustCreate(labels[k], st.existing)
    THEN IF outcomes[k] = "create_label_raises"
         THEN ApplyLoop([st EXCEPT !.creates =
                                      Append(@, CreateLabelCall(labels[k], FALSE))],
                        labels, outcomes, k + 1)
         ELSE ApplyLoop([st EXCEPT !.existing = @ \cup {labels[k]},
                                   !.creates =
                                      Append(@, CreateLabelCall(labels[k], TRUE)),
                                   !.success_count = @ + 1],
                        labels, outcomes, k + 1)
    ELSE ApplyLoop([st EXCEPT !.success_count = @ + 1], labels, outcomes, k + 1)

\* a synchronizer that first takes away the labels it is not asked for
apply_compliance_labels_exactly(existing, labels, outcomes) ==
    ApplyLoop([existing |-> existing \cap Range(labels), creates |-> <<>>,
               success_count |-> 0],
              labels, outcomes, 1)

\* [existing, creates, success_count]: the labels of the repository after
\* the call, the create_label calls issued, and the count returned
apply_compliance_labels(existing, labels, outcomes) ==
    ApplyLoop([existing |-> existing, creates |-> <<>>, success_count |-> 0],
              labels, outcomes, 1)

(***************************************************************************)
(* Responsible-user resolver.  A repository carries, besides its name and  *)
(* owner: collaborators [ok, list of [login, admin, maintain]], codeowners *)
(* (location -> [ok, text]), commits [ok, authors] as get_commits returns  *)
(* them for the last 30 days (an author without login is the empty login), *)
(* and owner_ok.  ok = FALSE stands for a host call that raises.           *)
(***************************************************************************)
AdminLimit == 2
MaintainerLimit == 2
OwnersWanted == 2
OwnerLimit == 2
CommittersWanted == 3
CommitLimit == 10
CommitterLimit == 3
AssigneeLimit == 3

OwnersLocations == <<".github/CODEOWNERS", "CODEOWNERS", "docs/CODEOWNERS">>

\* [a-zA-Z0-9\-_]
OwnerChars == Range(UpperLetters) \cup Range(LowerLetters) \cup DigitChars
                  \cup {"-", "_"}

RECURSIVE RunEnd(_, _)
\* the last position of the run of owner characters that starts at i
RunEnd(s, i) ==
    IF i < Len(s) /\ s[i + 1] \in OwnerChars THEN RunEnd(s, i + 1) ELSE i

RECURSIVE FindOwnersFrom(_, _)
FindOwnersFrom(s, i) ==
    IF i >= Len(s) THEN <<>>
    ELSE IF s[i] = "@" /\ s[i + 1] \in OwnerChars
    THEN <<SubSeq(s, i + 1, RunEnd(s, i + 1))>>
             \o FindOwnersFrom(s, RunEnd(s, i + 1) + 1)
    ELSE FindOwnersFrom(s, i + 1)

\* re.findall(r'@([a-zA-Z0-9\-_]+)', codeowners_content)
FindOwners(codeowners_content) == FindOwnersFrom(codeowners_content, 1)

\* [owner for owner in owners if '/' not in owner]
IndividualOwners(owners) == SelectSeq(owners, LAMBDA owner : ~InSeq("/", owner))

\* the logins of the collaborators with permissions.admin
Admins(collaborators) ==
    LET a == SelectSeq(collaborators, LAMBDA c : c.admin)
    IN  [i \in DOMAIN a |-> a[i].login]

\* the logins of those without admin and with permissions.maintain
Maintainers(collaborators) ==
    LET m == SelectSeq(collaborators, LAMBDA c : ~c.admin /\ c.maintain)
    IN  [i \in DOMAIN m |-> m[i].login]

\* 1. administrators, then maintainers
AfterCollaborators(repo) ==
    IF ~repo.collaborators.ok THEN <<>>
    ELSE LET admins == Admins(repo.collaborators.list)
             maintainers == Maintainers(repo.collaborators.list)
             users == Take(admins, AdminLimit)
         IN  IF maintainers # <<>> /\ Len(users) < OwnersWanted
             THEN users \o Take(maintainers, MaintainerLimit)
             ELSE users

RECURSIVE OwnersFrom(_, _)
\* the owners taken from the first location that is readable and names one
OwnersFrom(repo, locations) ==
    IF locations = <<>> THEN <<>>
    ELSE LET file == repo.codeowners[Head(locations)]
             individual_owners == IndividualOwners(FindOwners(file.text))
         IN  IF file.ok /\ individual_owners # <<>>
             THEN Take(individual_owners, OwnerLimit)
             ELSE OwnersFrom(repo, Tail(locations))

\* a CODEOWNERS tier consulted however many users are accumulated
AfterCodeownersAlways(repo) ==
    AfterCollaborators(repo) \o OwnersFrom(repo, OwnersLocations)

\* 2. CODEOWNERS
AfterCodeowners(repo) ==
    LET users == AfterCollaborators(repo)
    IN  IF Len(users) < OwnersWanted
        THEN users \o OwnersFrom(repo, OwnersLocations)
        ELSE users

\* the committers of the listed commits, the most frequent first
RecentCommitters(repo) ==
    LET commits == Take(repo.commits.authors, CommitLimit)
        authors == SelectSeq(commits, LAMBDA author : author # <<>>)
        top_committers == SortedByCount(CountAll(<<>>, authors))
        top == Take(top_committers, CommitterLimit)
    IN  [i \in DOMAIN top |-> top[i].key]

RECURSIVE AddCommitters(_, _)
AddCommitters(users, committers) ==
    IF committers = <<>> THEN users
    ELSE AddCommitters(IF ~InSeq(Head(committers), users)
                            /\ Len(users) < CommittersWanted
                       THEN Append(users, Head(committers))
                       ELSE users,
                       Tail(committers))

\* 3. recent committers
AfterCommitters(repo) ==
    LET users == AfterCodeowners(repo)
    IN  IF Len(users) < CommittersWanted /\ repo.commits.ok
        THEN AddCommitters(users, RecentCommitters(repo))
        ELSE users

\* 4. the owner of the repository
AfterOwner(repo) ==
    LET users == AfterCommitters(repo)
    IN  IF Len(users) = 0 /\ repo.owner_ok /\ repo.owner # <<>>
                /\ ~InSeq(repo.owner, users)
        THEN Append(users, repo.owner)
        ELSE users

RECURSIVE UniqueInto(_, _)
UniqueInto(unique_users, users) ==
    IF users = <<>> THEN unique_users
    ELSE UniqueInto(IF InSeq(Head(users), unique_users)
                    THEN unique_users
                    ELSE Append(unique_users, Head(users)),
                    Tail(users))

\* a list left as it is
UniqueKeepAll(users) == users

\* duplicates removed, the order of first occurrence kept
Unique(users) == UniqueInto(<<>>, users)

get_responsible_users(repo) == Take(Unique(AfterOwner(repo)), AssigneeLimit)

(***************************************************************************)
(* Issue publisher.  The admin repository is h = [issues, labels, log]:    *)
(* its issues in the order of creation (the number of an issue is its      *)
(* position), the names of its labels, and the mutating calls the host     *)
(* received from the publisher.  Titles, label names and logins are        *)
(* texts; the emoji and blank that open a title are left out, as no date   *)
(* and no repository name holds them.  A fault names the host call that    *)
(* raises: "read" (get_repo, get_issues), "get_labels", "create_label",    *)
(* "write" (create_issue, or edit of a body) or "assign" (edit of the      *)
(* assignees).                                                             *)
(***************************************************************************)
AdminRepoName == <<"a","d","m","i","n","-","r","e","p","o","-","c","o","m","p","l","i","a","n","c","e">>
LabelComplianceReport == <<"c","o","m","p","l","i","a","n","c","e","-","r","e","p","o","r","t">>
LabelAutomated == <<"a","u","t","o","m","a","t","e","d">>
LabelHighPriority == <<"h","i","g","h","-","p","r","i","o","r","i","t","y","-","c","o","m","p","l","i","a","n","c","e">>
LabelAutoAssigned == <<"a","u","t","o","-","a","s","s","i","g","n","e","d">>
\* required_labels, in the order of the dict
RequiredAdminLabels ==
    <<LabelComplianceReport, LabelAutomated, LabelHighPriority, LabelAutoAssigned>>
HighPriorityLabels ==
    {"missing:readme", "missing:gitignore", "security:no-branch-protection",
     "naming:missing-prefix"}
SummaryTitlePrefix == <<"R","e","p","o","s","i","t","o","r","y"," ","C","o","m","p","l","i","a","n","c","e"," ","R","e","p","o","r","t"," ","-"," ">>
HighPriorityTitlePrefix == <<"H","i","g","h"," ","P","r","i","o","r","i","t","y"," ","C","o","m","p","l","i","a","n","c","e"," ","-"," ">>
ScanLabelPrefix == <<"s","c","a","n","-">>

DigitOf(d) == CASE d = 0 -> "0" [] d = 1 -> "1" [] d = 2 -> "2" [] d = 3 -> "3"
                [] d = 4 -> "4" [] d = 5 -> "5" [] d = 6 -> "6" [] d = 7 -> "7"
                [] d = 8 -> "8" [] OTHER -> "9"
RECURSIVE Digits(_)
Digits(n) == IF n < 10 THEN <<DigitOf(n)>> ELSE Append(Digits(n \div 10), DigitOf(n % 10))

\* datetime.now().strftime('%Y-%m-%d'): one text per day, written here as
\* the number of the day
Today(clock) == Digits(clock \div HoursPerDay)

SummaryTitle(today) == SummaryTitlePrefix \o today
HighPriorityTitle(repo_name) == HighPriorityTitlePrefix \o repo_name

Reverse(s) == [i \in DOMAIN s |-> s[Len(s) + 1 - i]]

\* admin_repo.get_issues(state='open', labels=[label]): the numbers of the
\* open issues that carry the label, the newest first
OpenIssues(issues, label) ==
    Reverse(SelectSeq([i \in DOMAIN issues |-> i],
                      LAMBDA i : issues[i].state = "open"
                                    /\ InSeq(label, issues[i].labels)))

\* a publisher that never recognises an existing issue
FirstTitledNever(issues, listed, text) == 0

\* the first of the listed issues whose title contains the text, 0 when
\* there is none
FirstTitled(issues, listed, text) ==
    LET hits == SelectSeq(listed, LAMBDA i : Contains(issues[i].title, text))
    IN  IF hits = <<>> THEN 0 ELSE hits[1]

HostCall(op, on, ok) == [op |-> op, on |-> on, ok |-> ok]

\* issue.edit(body=body)
EditBody(h, i, body, ok) ==
    [h EXCEPT !.issues[i].body = IF ok THEN body ELSE @,
              !.log = Append(@, HostCall("edit_body", h.issues[i].title, ok))]

\* issue.edit(assignees=users)
EditAssignees(h, i, users, ok) ==
    [h EXCEPT !.issues[i].assignees = IF ok THEN users ELSE @,
              !.log = Append(@, HostCall("edit_assignees", h.issues[i].title, ok))]

NewIssue(number, title, body, labels, assignees) ==
    [number |-> number, title |-> title, body |-> body, labels |-> labels,
     assignees |-> assignees, state |-> "open"]

\* admin_repo.create_issue(title, body, labels, assignees); the host gives
\* the repository the labels it did not have
CreateIssue(h, issue, ok) ==
    IF ok
    THEN [h EXCEPT !.issues = Append(@, issue),
                   !.labels = @ \cup Range(issue.labels),
                   !.log = Append(@, HostCall("create_issue", issue.title, TRUE))]
    ELSE [h EXCEPT !.log = Append(@, HostCall("create_issue", issue.title, FALSE))]

\* admin_repo.create_label(label_name, color, description)
CreateAdminLabel(h, label_name, ok) ==
    [h EXCEPT !.labels = IF ok THEN @ \cup {label_name} ELSE @,
              !.log = Append(@, HostCall("create_label", label_name, ok))]

RECURSIVE EnsureLabelsFrom(_, _, _, _)
\* the loop of ensure_admin_labels_exist over the labels not yet handled
EnsureLabelsFrom(h, existing_labels, todo, failing) ==
    IF todo = <<>> THEN h
    ELSE EnsureLabelsFrom(IF Head(todo) \notin existing_labels
                          THEN CreateAdminLabel(h, Head(todo), Head(todo) \notin failing)
                          ELSE h,
                          existing_labels, Tail(todo), failing)

\* failing: the labels whose create_label raises
ensure_admin_labels_exist(h, failing) ==
    EnsureLabelsFrom(h, h.labels, RequiredAdminLabels, failing)

\* the labels whose create_label raises under the fault
FailingLabels(fault) == IF fault = "create_label" THEN {LabelAutomated} ELSE {}

SummaryBody(org, report) ==
    [kind |-> "summary", about |-> org, report |-> report, users |-> <<>>]

\* lines 389-416, the same in both publishers: [h, raised]
PublishSummary(h, org, report, today, fault) ==
    IF fault.summary = "read" THEN [h |-> h, raised |-> TRUE]
    ELSE LET existing_issues == OpenIssues(h.issues, LabelComplianceReport)
             today_issue == FirstTitled(h.issues, existing_issues, today)
         IN  IF today_issue # 0
             THEN [h |-> EditBody(h, today_issue, SummaryBody(org, report),
                                  fault.summary # "write"),
                   raised |-> fault.summary = "write"]
             ELSE IF fault.summary = "get_labels" THEN [h |-> h, raised |-> TRUE]
             ELSE [h |-> CreateIssue(ensure_admin_labels_exist(h, FailingLabels(fault.summary)),
                                     NewIssue(Len(h.issues) + 1, SummaryTitle(today),
                                              SummaryBody(org, report),
                                              <<LabelComplianceReport, LabelAutomated,
                                                ScanLabelPrefix \o today>>,
                                              <<>>),
                                     fault.summary # "write"),
                   raised |-> fault.summary = "write"]

\* any(label in high_priority_labels for label in labels)
HasHighPriority(repo_issue) ==
    \E i \in DOMAIN repo_issue.labels : repo_issue.labels[i] \in HighPriorityLabels

RECURSIVE Remove(_, _)
\* s.replace(sub, '')
Remove(s, sub) ==
    IF Len(s) < Len(sub) THEN s
    ELSE IF StartsWith(s, sub) THEN Remove(SubSeq(s, Len(sub) + 1, Len(s)), sub)
    ELSE <<Head(s)>> \o Remove(Tail(s), sub)

\* the owner/name that get_repo is asked for
FullName(repo_url) == Remove(repo_url, UrlPrefix)

\* line 566: labels[min(i-1, len(labels)-1)] if labels else "", for the i-th
\* violation, i counted from 1
IconLabel(labels, i) ==
    IF labels = <<>> THEN ""
    ELSE labels[(IF i - 1 < Len(labels) - 1 THEN i - 1 ELSE Len(labels) - 1) + 1]

HighPriorityBody(repo_issue, users) ==
    [kind |-> "high", about |-> repo_issue.name, report |-> repo_issue, users |-> users]

HighPriorityIssue(h, repo_issue, users) ==
    NewIssue(Len(h.issues) + 1, HighPriorityTitle(repo_issue.name),
             HighPriorityBody(repo_issue, users),
             <<LabelHighPriority, LabelAutomated, repo_issue.name>>, users)

\* one iteration of the loop of create_high_priority_issues_with_assignment;
\* repos: the repositories get_repo can return, by full name
AssignOne(h, repos, repo_issue, fault) ==
    IF ~HasHighPriority(repo_issue) THEN h
    ELSE IF fault = "read" \/ FullName(repo_issue.url) \notin DOMAIN repos THEN h
    ELSE LET users == get_responsible_users(repos[FullName(repo_issue.url)])
             body == HighPriorityBody(repo_issue, users)
             existing_issues == OpenIssues(h.issues, LabelHighPriority)
             found == FirstTitled(h.issues, existing_issues, repo_issue.name)
         IN  IF found # 0
             THEN IF fault = "write" THEN EditBody(h, found, body, FALSE)
                  ELSE IF users # <<>>
                  THEN EditAssignees(EditBody(h, found, body, TRUE), found, users,
                                     fault # "assign")
                  ELSE EditBody(h, found, body, TRUE)
             ELSE CreateIssue(h, HighPriorityIssue(h, repo_issue, users),
                              fault # "write")

RECURSIVE AssignLoop(_, _, _, _, _)
AssignLoop(h, repos, compliance_issues, faults, k) ==
    IF k > Len(compliance_issues) THEN h
    ELSE AssignLoop(AssignOne(h, repos, compliance_issues[k], faults[k]),
                    repos, compliance_issues, faults, k + 1)

create_high_priority_issues_with_assignment(h, repos, compliance_issues, faults) ==
    AssignLoop(h, repos, compliance_issues, faults, 1)

\* one iteration of the loop of create_high_priority_issues; st = [h, raised],
\* raised once an iteration let an exception out of the loop
PlainOne(st, repo_issue, fault) ==
    IF st.raised \/ ~HasHighPriority(repo_issue) THEN st
    ELSE IF fault = "read" THEN [st EXCEPT !.raised = TRUE]
    ELSE LET h == st.h
             body == HighPriorityBody(repo_issue, <<>>)
             existing_issues == OpenIssues(h.issues, LabelHighPriority)
             found == FirstTitled(h.issues, existing_issues, repo_issue.name)
         IN  IF found # 0
             THEN [h |-> EditBody(h, found, body, fault # "write"),
                   raised |-> fault = "write"]
             ELSE [h |-> CreateIssue(h, HighPriorityIssue(h, repo_issue, <<>>),
                                     fault # "write"),
                   raised |-> FALSE]

RECURSIVE PlainLoop(_, _, _, _)
PlainLoop(st, compliance_issues, faults, k) ==
    IF k > Len(compliance_issues) THEN st
    ELSE PlainLoop(PlainOne(st, compliance_issues[k], faults[k]),
                   compliance_issues, faults, k + 1)

create_high_priority_issues(h, compliance_issues, faults) ==
    PlainLoop([h |-> h, raised |-> FALSE], compliance_issues, faults, 1)

\* [h, raised]
create_compliance_issues_with_assignment(h, repos, org, compliance_issues, report, today, fault) ==
    LET s == PublishSummary(h, org, report, today, fault)
    IN  IF s.raised THEN s
        ELSE [h |-> create_high_priority_issues_with_assignment(
                        s.h, repos, compliance_issues, fault.repos),
              raised |-> FALSE]

\* [h, raised]
create_compliance_issues(h, org, compliance_issues, report, today, fault) ==
    LET s == PublishSummary(h, org, report, today, fault)
    IN  IF s.raised THEN s
        ELSE create_high_priority_issues(s.h, compliance_issues, fault.repos)

\* lines 202-214 of main: [h, raised], raised when the publisher raised and
\* main printed the error
PublishIssues(h, repos, org, compliance_issues, report, today, dry_run, enable_assignment, fault) ==
    IF dry_run \/ compliance_issues = <<>> THEN [h |-> h, raised |-> FALSE]
    ELSE IF enable_assignment
    THEN create_compliance_issues_with_assignment(h, repos, org, compliance_issues,
                                                  report, today, fault)
    ELSE create_compliance_issues(h, org, compliance_issues, report, today, fault)

(***************************************************************************)
(* main.  env holds the environment variables as texts, an unset variable  *)
(* being the empty text.                                                   *)
(***************************************************************************)
EnvTrue == <<"t","r","u","e">>
EnvFalse == <<"f","a","l","s","e">>
GhsPrefix == <<"g","h","s","_">>
DefaultOrg == FinastraDemo
StatusCompleted == <<"c","o","m","p","l","e","t","e","d">>
StatusFailed == <<"f","a","i","l","e","d">>
\* str(e)
ErrorText == <<"e","r","r","o","r">>
PacingEvery == 10

RECURSIVE SplitFirst(_, _)
\* s.split(sep)[0]
SplitFirst(s, sep) ==
    IF s = <<>> \/ Head(s) = sep THEN <<>>
    ELSE <<Head(s)>> \o SplitFirst(Tail(s), sep)

IsGithubActions(env) == env.GITHUB_ACTIONS = EnvTrue

detect_organization(env, is_github_actions) ==
    IF is_github_actions /\ env.GITHUB_REPOSITORY # <<>>
    THEN SplitFirst(env.GITHUB_REPOSITORY, "/")
    ELSE IF env.TARGET_ORG # <<>> THEN env.TARGET_ORG
    ELSE DefaultOrg

\* os.environ.get('DRY_RUN', 'false').lower() == 'true'
DryRun(env) == Lower(IF env.DRY_RUN = <<>> THEN EnvFalse ELSE env.DRY_RUN) = EnvTrue

\* os.environ.get('ENABLE_AUTO_ASSIGNMENT', 'true').lower() == 'true'
EnableAssignment(env) ==
    Lower(IF env.ENABLE_AUTO_ASSIGNMENT = <<>> THEN EnvTrue
          ELSE env.ENABLE_AUTO_ASSIGNMENT) = EnvTrue

\* the token checks of lines 47-62: the exit they lead to, "" when none
TokenExit(env) ==
    IF env.GITHUB_TOKEN = <<>> THEN "token_missing"
    ELSE IF IsGithubActions(env) /\ StartsWith(env.GITHUB_TOKEN, GhsPrefix)
    THEN "default_token"
    ELSE ""

\* r.pushed_at or r.created_at
ActivityKey(r) == IF r.pushed_at # -1 THEN r.pushed_at ELSE r.created_at

RECURSIVE InsertByActivity(_, _)
InsertByActivity(sorted, r) ==
    IF sorted = <<>> THEN <<r>>
    ELSE IF ActivityKey(Head(sorted)) >= ActivityKey(r)
    THEN <<Head(sorted)>> \o InsertByActivity(Tail(sorted), r)
    ELSE <<r>> \o sorted

\* a discovery that leaves the repositories in the order of the listing
SortedByActivityNot(repos) == repos

RECURSIVE SortedByActivity(_)
\* repositories.sort(key=..., reverse=True)
SortedByActivity(repos) ==
    IF repos = <<>> THEN <<>>
    ELSE InsertByActivity(SortedByActivity(SubSeq(repos, 1, Len(repos) - 1)),
                          repos[Len(repos)])

\* get_all_repositories_optimized, for a listing that fits one page; the
\* page is read or its request raises, which ends the paging with nothing
Discovered(listing, page_ok) == IF page_ok THEN SortedByActivity(listing) ELSE <<>>

\* str(n), n >= 0
StrInt(n) == Digits(n)
\* str(x) of a rate given in tenths
StrRate(tenths) == Digits(tenths \div 10) \o <<".">> \o <<DigitOf(tenths % 10)>>
StrBool(b) == IF b THEN <<"T","r","u","e">> ELSE <<"F","a","l","s","e">>

\* set_github_actions_output(key, value): a line appended to the file
\* GITHUB_OUTPUT names, when it names one
set_github_actions_output(outputs, env, key, value) ==
    IF env.GITHUB_OUTPUT # <<>> THEN Append(outputs, [key |-> key, value |-> value])
    ELSE outputs

\* what the failing exits write in GitHub Actions
FailedOutputs(outputs, env) ==
    IF IsGithubActions(env)
    THEN set_github_actions_output(
             set_github_actions_output(outputs, env, "compliance_status", StatusFailed),
             env, "error_message", ErrorText)
    ELSE outputs

\* lines 227-233
CompletedOutputs(outputs, env, total, scanned, rate, assignment) ==
    IF IsGithubActions(env)
    THEN set_github_actions_output(
           set_github_actions_output(
             set_github_actions_output(
               set_github_actions_output(
                 set_github_actions_output(outputs, env, "compliance_status", StatusCompleted),
                 env, "total_repos", StrInt(total)),
               env, "compliant_repos", StrInt(scanned)),
             env, "compliance_rate", StrRate(rate)),
           env, "auto_assignment_enabled", StrBool(assignment))
    ELSE outputs

\* a run that applies the labels in dry-run mode too
ShouldApplyAlways(dry) == TRUE

\* line 172: labels are applied when the run is not a dry run
ShouldApply(dry) == ~dry

\* an exception of the publisher that goes on to the handler of line 235
PublisherErrorEscapes(raised) == raised

\* lines 203-211: an exception of the publisher is printed and goes no
\* further
PublisherErrorIsFatal(raised) == FALSE

\* an exception of a scan that goes on to the handler of line 235
ScanErrorEscapes(raised) == raised

\* lines 187-190: an exception raised in the body of the loop is printed and
\* counted, and the loop goes on with the next repository
ScanErrorIsFatal(raised) == FALSE

\* the mutating calls a call of apply_compliance_labels issued
LabelMutations(repo_name, creates) ==
    [k \in DOMAIN creates |-> [op |-> "create_label", repo |-> repo_name, ok |-> creates[k].ok]]

\* the mutating calls a publishing run issued
AdminMutations(log) ==
    [k \in DOMAIN log |-> [op |-> log[k].op, repo |-> AdminRepoName, ok |-> log[k].ok]]

(***************************************************************************)
(* The inputs the specifications draw from.                                *)
(***************************************************************************)
\* the hour on the clock at which a scan runs
ScanHour == 24000

OrgFinastraCaps == <<"F","i","n","a","s","t","r","a","-","D","e","m","o">>
OrgArctiqCaps == <<"A","r","c","t","i","q","T","e","a","m">>
OrgArctiqDashCaps == <<"A","r","c","t","i","q","-","T","e","a","m">>
OrgArctiqUnder == <<"a","r","c","t","i","q","_","t","e","a","m">>
OrgAcme == <<"a","c","m","e">>
SampleOrgs ==
    {FinastraDemo, OrgFinastraCaps, ArctiqTeam, ArctiqDashTeam, OrgArctiqCaps,
     OrgArctiqDashCaps, OrgArctiqUnder, OrgAcme}

NameFDService == <<"F","D","-","t","e","a","m","-","m","y","-","s","e","r","v","i","c","e">>
NameMyService == <<"m","y","-","s","e","r","v","i","c","e">>
NameLowerFD == <<"f","d","-","t","e","a","m","-","s","v","c">>
NameFDShort == <<"F","D","-","x">>
NameTTeam == <<"t","-","t","e","a","m","-","s","v","c">>
NameActionCi == <<"a","c","t","i","o","n","-","c","i","-","t","o","o","l","s">>
NameUpperFD == <<"F","D","-","T","E","A","M","-","S","V","C">>
\* one organization for each rule set
MainOrgs == {FinastraDemo, ArctiqTeam, OrgAcme}

SampleNames ==
    {NameFDService, NameMyService, NameLowerFD, NameFDShort, NameTTeam, NameActionCi,
     NameUpperFD}

\* a text of n characters, the first `blanks` of them blank
Text(n, blanks) == [i \in 1..n |-> IF i <= blanks THEN " " ELSE "x"]
SampleDescriptions ==
    {[none |-> TRUE, text |-> <<>>],
     [none |-> FALSE, text |-> <<>>],
     [none |-> FALSE, text |-> Text(9, 0)],
     [none |-> FALSE, text |-> Text(12, 3)],
     [none |-> FALSE, text |-> Text(10, 0)],
     [none |-> FALSE, text |-> Text(40, 0)],
     [none |-> FALSE, text |-> Text(40, 35)]}

NoFiles == [p \in Paths |-> -1]
AllFiles ==
    [p \in Paths |->
        IF p = "README.md" THEN 150
        ELSE IF p \in {".gitignore", "LICENSE", "CODEOWNERS"} THEN 20
        ELSE -1]
\* the files of a repository, one path changed at a time: the first two
\* README candidates in every length of interest, the others present or not
FileChanges(files) ==
    {[files EXCEPT ![p] = n] : p \in {"README.md", "README.rst"},
                               n \in {-1, 0, 99, 100, 150}}
      \cup {[files EXCEPT ![p] = n] : p \in Paths \ {"README.md", "README.rst"},
                                      n \in {-1, 20}}

SampleBranches ==
    {"unreadable", "unprotected", "protected_no_checks", "protected_checks",
     "protected_unreadable"}
SamplePushedAt ==
    {-1, ScanHour + 5, ScanHour - 24, ScanHour - 180 * 24 - 23, ScanHour - 181 * 24,
     ScanHour - 365 * 24 - 23, ScanHour - 366 * 24, ScanHour - 400 * 24}
SampleSizes == {0, 5, 9, 10, 50, 5000}
SampleTopics == {-1, 0, 2}

\* a repository that satisfies every rule of finastra-demo, and one that
\* breaks most of them
RepoGood ==
    [meta_ok |-> TRUE,
     name |-> NameFDService,
     owner |-> FinastraDemo,
     private |-> FALSE,
     archived |-> FALSE,
     size |-> 50,
     language |-> "Python",
     description |-> [none |-> FALSE, text |-> Text(40, 0)],
     pushed_at |-> ScanHour - 24,
     created_at |-> 0,
     default_branch |-> "main",
     branch |-> "protected_checks",
     files |-> AllFiles,
     topics |-> 2]
RepoBad ==
    [RepoGood EXCEPT !.name = NameMyService,
                     !.size = 5,
                     !.language = "",
                     !.description = [none |-> TRUE, text |-> <<>>],
                     !.pushed_at = ScanHour - 400 * 24,
                     !.branch = "unprotected",
                     !.files = NoFiles,
                     !.topics = 0]

\* the snapshots that differ from r in one attribute (or in none)
Vary(r) ==
    {[r EXCEPT !.name = v] : v \in SampleNames}
      \cup {[r EXCEPT !.meta_ok = v] : v \in BOOLEAN}
      \cup {[r EXCEPT !.private = v] : v \in BOOLEAN}
      \cup {[r EXCEPT !.archived = v] : v \in BOOLEAN}
      \cup {[r EXCEPT !.size = v] : v \in SampleSizes}
      \cup {[r EXCEPT !.language = v] : v \in {"", "Python"}}
      \cup {[r EXCEPT !.description = v] : v \in SampleDescriptions}
      \cup {[r EXCEPT !.pushed_at = v] : v \in SamplePushedAt}
      \cup {[r EXCEPT !.default_branch = v] : v \in {"", "main"}}
      \cup {[r EXCEPT !.branch = v] : v \in SampleBranches}
      \cup {[r EXCEPT !.files = v] : v \in FileChanges(r.files)}
      \cup {[r EXCEPT !.topics = v] : v \in SampleTopics}

\* every snapshot within two changes of RepoGood or of RepoBad
SampleRepos == UNION {Vary(r) : r \in Vary(RepoGood) \cup Vary(RepoBad)}

\* what the inspector returns for a snapshot, as main collects it
ResultOf(r, rules) == check_repository_compliance(r, rules, ScanHour).issues
SampleResults ==
    {ResultOf(RepoBad, RulesFinastra),
     ResultOf([RepoGood EXCEPT !.name = NameFDShort], RulesFinastra),
     ResultOf([RepoGood EXCEPT !.name = NameLowerFD, !.private = TRUE,
                               !.language = "", !.files["README.md"] = 50],
              RulesFinastra),
     ResultOf([RepoGood EXCEPT !.name = NameTTeam, !.branch = "unreadable",
                               !.size = 0],
              RulesFinastra),
     ResultOf([RepoGood EXCEPT !.files["README.md"] = 50, !.branch = "unprotected"],
              RulesFinastra)}

\* the lists of at most n distinct elements of S
ListsOf(S, n) ==
    UNION {{q \in [1..k -> S] : \A i, j \in 1..k : i # j => q[i] # q[j]} : k \in 0..n}

\* logins
Al == <<"a","l">>
Bo == <<"b","o">>
Cy == <<"c","y">>
Di == <<"d","i">>

Collaborator(login, admin, maintain) ==
    [login |-> login, admin |-> admin, maintain |-> maintain]
SampleCollaborators ==
    {[ok |-> FALSE, list |-> <<>>],
     [ok |-> TRUE, list |-> <<>>],
     [ok |-> TRUE, list |-> <<Collaborator(Di, FALSE, FALSE)>>],
     [ok |-> TRUE, list |-> <<Collaborator(Al, TRUE, TRUE)>>],
     [ok |-> TRUE, list |-> <<Collaborator(Bo, FALSE, TRUE)>>],
     [ok |-> TRUE, list |-> <<Collaborator(Al, TRUE, TRUE), Collaborator(Bo, TRUE, TRUE),
                              Collaborator(Cy, TRUE, TRUE)>>],
     [ok |-> TRUE, list |-> <<Collaborator(Bo, FALSE, TRUE), Collaborator(Al, TRUE, TRUE),
                              Collaborator(Cy, FALSE, TRUE), Collaborator(Di, FALSE, TRUE)>>],
     [ok |-> TRUE, list |-> <<Collaborator(Al, TRUE, FALSE), Collaborator(Cy, FALSE, TRUE),
                              Collaborator(Bo, TRUE, FALSE)>>]}

Unreadable == [ok |-> FALSE, text |-> <<>>]
Readable(text) == [ok |-> TRUE, text |-> text]
OwnersFiles(github, root, docs) ==
    [l \in Range(OwnersLocations) |->
        CASE l = ".github/CODEOWNERS" -> github
          [] l = "CODEOWNERS" -> root
          [] OTHER -> docs]
\* "* @al @bo @cy"
TextThreeOwners == <<"*"," ","@","a","l"," ","@","b","o"," ","@","c","y">>
\* "# owners"
TextNoOwner == <<"#"," ","o","w","n","e","r","s">>
\* "* @org/team @al"
TextTeamAndUser == <<"*"," ","@","o","r","g","/","t","e","a","m"," ","@","a","l">>
\* "*.py @al" and, on a second line, "* @al bo@x.io"
TextRepeated == <<"*",".","p","y"," ","@","a","l","\n","*"," ","@","a","l"," ","b","o","@","x",".","i","o">>
\* "* @cy"
TextOneOwner == <<"*"," ","@","c","y">>
SampleCodeowners ==
    {OwnersFiles(Unreadable, Unreadable, Unreadable),
     OwnersFiles(Readable(TextThreeOwners), Unreadable, Unreadable),
     OwnersFiles(Readable(TextNoOwner), Readable(TextTeamAndUser), Unreadable),
     OwnersFiles(Unreadable, Unreadable, Readable(TextRepeated)),
     OwnersFiles(Unreadable, Readable(TextOneOwner), Readable(TextThreeOwners)),
     OwnersFiles(Readable(<<>>), Unreadable, Unreadable)}

SampleCommits ==
    {[ok |-> FALSE, authors |-> <<>>],
     [ok |-> TRUE, authors |-> <<>>],
     [ok |-> TRUE, authors |-> <<Di>>],
     [ok |-> TRUE, authors |-> <<Al, Al, Bo>>],
     [ok |-> TRUE, authors |-> <<<<>>, Cy, Di, Cy, Bo, Al>>]}

SampleOwners ==
    {[owner |-> FinastraDemo, owner_ok |-> TRUE],
     [owner |-> Al, owner_ok |-> TRUE],
     [owner |-> <<>>, owner_ok |-> TRUE],
     [owner |-> FinastraDemo, owner_ok |-> FALSE]}

\* the repositories the resolver is run on
SampleUserRepos ==
    {[name |-> NameMyService, owner |-> o.owner, owner_ok |-> o.owner_ok,
      collaborators |-> c, codeowners |-> f, commits |-> m] :
        o \in SampleOwners, c \in SampleCollaborators,
        f \in SampleCodeowners, m \in SampleCommits}

NameService == <<"s","e","r","v","i","c","e">>
ResultBad == ResultOf(RepoBad, RulesFinastra)
ResultService == ResultOf([RepoBad EXCEPT !.name = NameService], RulesFinastra)
ResultFDShort == ResultOf([RepoGood EXCEPT !.name = NameFDShort], RulesFinastra)
ResultLowerFD == ResultOf([RepoGood EXCEPT !.name = NameLowerFD], RulesFinastra)
ResultTTeam ==
    ResultOf([RepoGood EXCEPT !.name = NameTTeam, !.branch = "unprotected"], RulesFinastra)
PublishResults == {ResultBad, ResultService, ResultFDShort, ResultLowerFD, ResultTTeam}
\* the result lists the publisher is given: all but that of FD-x carry a
\* high-priority label, and the name service is part of the name my-service
SamplePublishLists ==
    {<<>>, <<ResultBad>>, <<ResultFDShort>>, <<ResultFDShort, ResultBad>>,
     <<ResultBad, ResultService>>, <<ResultService, ResultBad>>,
     <<ResultLowerFD, ResultTTeam>>}
MaxRuns == 2

UserRepoAl ==
    [name |-> NameMyService, owner |-> FinastraDemo, owner_ok |-> TRUE,
     collaborators |-> [ok |-> TRUE, list |-> <<Collaborator(Al, TRUE, TRUE)>>],
     codeowners |-> OwnersFiles(Unreadable, Unreadable, Unreadable),
     commits |-> [ok |-> TRUE, authors |-> <<>>]]
UserRepoNobody ==
    [UserRepoAl EXCEPT !.owner = <<>>, !.collaborators = [ok |-> FALSE, list |-> <<>>]]
PublishNames == {FullName(r.url) : r \in PublishResults}
\* what get_repo finds: service has nobody to assign, t-team-svc is gone,
\* the others have an admin
SampleHostRepos ==
    {[n \in PublishNames \ {FullName(ResultTTeam.url)} |->
        IF n = FullName(ResultService.url) THEN UserRepoNobody ELSE UserRepoAl]}

AdminEmpty == [issues |-> <<>>, labels |-> {}, log |-> <<>>]
AdminWith(issue) ==
    [issues |-> <<issue>>, labels |-> Range(RequiredAdminLabels) \cup Range(issue.labels),
     log |-> <<>>]
SummaryIssueOf(day) ==
    NewIssue(1, SummaryTitle(day), SummaryBody(FinastraDemo, None),
             <<LabelComplianceReport, LabelAutomated, ScanLabelPrefix \o day>>, <<>>)
\* the admin repository before the first run: empty, or holding the summary
\* of the day before, a closed summary of the day, or the open issue of one
\* repository
SampleAdmins ==
    {AdminEmpty,
     AdminWith(SummaryIssueOf(Today(ScanHour - HoursPerDay))),
     AdminWith([SummaryIssueOf(Today(ScanHour)) EXCEPT !.state = "closed"]),
     AdminWith(NewIssue(1, HighPriorityTitle(NameMyService),
                        HighPriorityBody(ResultOf(RepoBad, RulesFinastra), <<>>),
                        <<LabelHighPriority, LabelAutomated, NameMyService>>, <<>>))}

SummaryFaults == {"none", "read", "get_labels", "create_label", "write"}
RepoFaults == {"none", "read", "write", "assign"}
\* the host calls that raise during one run over n results
Faults(n) == [summary : SummaryFaults, repos : [1..n -> RepoFaults]]
NoFault(fault) ==
    /\ fault.summary = "none"
    /\ \A k \in DOMAIN fault.repos : fault.repos[k] = "none"

\* a repository as main sees it: what the inspector reads and what the
\* resolver reads, the CODEOWNERS files being the same for both
FullRepo(r, u) ==
    [r EXCEPT !.files = [p \in DOMAIN r.files |->
                            IF p \in Range(OwnersLocations)
                            THEN IF u.codeowners[p].ok THEN Len(u.codeowners[p].text) ELSE -1
                            ELSE r.files[p]]]
        @@ u
UserRepoOwners ==
    [UserRepoAl EXCEPT !.codeowners =
                          OwnersFiles(Readable(TextThreeOwners), Unreadable, Unreadable)]
MainGood == FullRepo(RepoGood, UserRepoOwners)
MainBad == FullRepo(RepoBad, UserRepoAl)
MainService ==
    FullRepo([RepoBad EXCEPT !.name = NameService, !.pushed_at = ScanHour - 200 * 24],
             UserRepoNobody)
MainUnreadable ==
    FullRepo([RepoGood EXCEPT !.name = NameTTeam, !.meta_ok = FALSE, !.pushed_at = -1],
             UserRepoOwners)
\* a repository that cannot be scanned and is the first that discovery lists
MainUnreadableRecent ==
    FullRepo([RepoGood EXCEPT !.name = NameTTeam, !.meta_ok = FALSE,
                              !.pushed_at = ScanHour - 1],
             UserRepoOwners)
\* a repository pushed yesterday whose only fault is a short README
MainShortReadme == FullRepo([RepoGood EXCEPT !.files["README.md"] = 50], UserRepoOwners)
\* what the organization lists
SampleListings ==
    {<<>>, <<MainGood>>, <<MainBad, MainGood>>, <<MainUnreadable, MainBad>>,
     <<MainService, MainBad, MainGood>>, <<MainBad, MainUnreadableRecent, MainGood>>,
     <<MainBad, MainShortReadme>>}
\* a repository that cannot be scanned, pushed when MainGood was
MainUnreadableYesterday ==
    FullRepo([RepoGood EXCEPT !.name = NameTTeam, !.meta_ok = FALSE], UserRepoOwners)
\* the repository that cannot be scanned is the 10th that discovery lists
LongListings ==
    {[k \in 1..10 |-> MainGood],
     [k \in 1..11 |-> IF k = 10 THEN MainUnreadableYesterday ELSE MainGood]}

EnvLocal ==
    [GITHUB_ACTIONS |-> <<>>, GITHUB_TOKEN |-> <<"g","h","p","_","x">>, DRY_RUN |-> <<>>,
     ENABLE_AUTO_ASSIGNMENT |-> <<>>, TARGET_ORG |-> <<>>, GITHUB_REPOSITORY |-> <<>>,
     GITHUB_OUTPUT |-> <<>>]
EnvActions ==
    [EnvLocal EXCEPT !.GITHUB_ACTIONS = EnvTrue,
                     !.GITHUB_REPOSITORY = FinastraDemo \o <<"/">> \o AdminRepoName,
                     !.GITHUB_OUTPUT = <<"o","u","t">>]
BaseEnvs ==
    {[e EXCEPT !.DRY_RUN = d, !.ENABLE_AUTO_ASSIGNMENT = a] :
        e \in {EnvLocal, EnvActions},
        d \in {<<>>, EnvTrue, <<"T","r","u","e">>},
        a \in {<<>>, EnvFalse}}
OtherEnvs ==
    {[e EXCEPT !.GITHUB_TOKEN = t] : e \in {EnvLocal, EnvActions}, t \in {<<>>, <<"g","h","s","_","x">>}}
      \cup {[e EXCEPT !.TARGET_ORG = OrgAcme] : e \in {EnvLocal, EnvActions}}
      \cup {[EnvActions EXCEPT !.TARGET_ORG = OrgAcme, !.GITHUB_REPOSITORY = <<>>],
            [EnvActions EXCEPT !.GITHUB_OUTPUT = <<>>],
            [EnvActions EXCEPT !.GITHUB_ACTIONS = <<"T","r","u","e">>]}

\* what get_repo returns for the repositories listed
HostReposOf(listing) ==
    [n \in {FullName(HtmlUrl(listing[k])) : k \in DOMAIN listing} |->
        listing[CHOOSE k \in DOMAIN listing : FullName(HtmlUrl(listing[k])) = n]]
\* the labels the repositories hold before the run
HostLabelsOf(listing) ==
    [n \in {listing[k].name : k \in DOMAIN listing} |->
        IF n = NameMyService THEN {"missing:readme"} ELSE {}]

ValidateOutcomes == {"ok", "get_user_raises", "organization_denied", "repositories_denied"}
\* the host calls of one apply_compliance_labels all succeed, or all fail
\* in one way
LabelOutcomes(n) == {[k \in 1..n |-> o] : o \in HostOutcomes}
NoFaults(n) == [summary |-> "none", repos |-> [k \in 1..n |-> "none"]]
\* no host call of the publisher fails, or the writes to the summary issue
\* do, or those to the repository issues
MainFaults(n) ==
    {NoFaults(n), [NoFaults(n) EXCEPT !.summary = "write"],
     [NoFaults(n) EXCEPT !.repos = [k \in 1..n |-> "write"]]}

\* the labels a repository may hold before a run, and those a run may ask for
SampleExistingLabels == {"missing:readme", "bug"}
SampleDesiredLabels == {"missing:readme", "naming:missing-prefix", "quality:minimal"}
MaxDesired == 2

\* every list of at most n elements of S
SeqsOf(S, n) == UNION {[1..k -> S] : k \in 0..n}

MaxIssues == 3
MaxTotal == 4
MaxReportCalls == 2
MaxTicks == 2


(***************************************************************************)
(* State                                                                   *)
(***************************************************************************)
VARIABLES
    pc,                \* the step the run modelled by the specification is at
    now,               \* the clock, in hours
    org_name,          \* the organization scanned
    compliance_rules,  \* what get_compliance_rules returned
    repo,              \* the repository under inspection
    scan,              \* what check_repository_compliance returned
    compliance_issues, \* the results of the non-compliant repositories
    total_repos,       \* the number of repositories discovered
    report,            \* what generate_compliance_report returned last
    prev_report,       \* what it returned the time before
    report_file,       \* the contents of compliance-report.json
    report_calls,      \* the number of calls of generate_compliance_report
    host_labels,       \* host: repository name -> the labels it holds
    desired_labels,    \* the labels apply_compliance_labels is called with
    last_apply,        \* the last call of apply_compliance_labels: the labels
                       \* before and after, the calls issued, the count returned
    prev_apply,        \* the call before
    responsible_users, \* what get_responsible_users returned
    dry_run,           \* DRY_RUN is 'true'
    enable_assignment, \* ENABLE_AUTO_ASSIGNMENT is 'true'
    host_repos,        \* host: full name -> the repository get_repo returns
    admin,             \* host: the admin repository, with the mutating calls
                       \* of the last publishing run
    publish,           \* the publishing runs made: how many, whether the last
                       \* one raised, whether a call failed in the last one
                       \* and in the ones before, whether a reading call
                       \* failed in the last one
    env,               \* the environment variables
    exit_code,         \* the exit status of main, -1 while it runs
    events,            \* what went wrong on the host or locally during the run
    outputs,           \* the lines written to the file GITHUB_OUTPUT names
    org_repos,         \* host: the repositories the organization lists
    repositories,      \* the repositories discovered
    scan_index,        \* the index i of the scan loop
    successful_scans,
    failed_scans,
    sleeps,            \* the pacing pauses of the scan loop
    mutations          \* the mutating calls the run issued to the host

inspectVars == <<org_name, compliance_rules, repo, scan>>
reportVars ==
    <<compliance_issues, total_repos, report, prev_report, report_file, report_calls>>
labelVars == <<host_labels, desired_labels, last_apply, prev_apply>>
userVars == <<responsible_users>>
publishVars == <<dry_run, enable_assignment, host_repos, admin, publish>>
runVars == <<org_repos, repositories, scan_index, successful_scans, failed_scans, sleeps, mutations>>
mainVars == <<env, exit_code, events, outputs, runVars>>
vars == <<pc, now, inspectVars, reportVars, labelVars, userVars, publishVars, mainVars>>

\* the variables a specification does not use keep these values
InspectIdle ==
    /\ org_name = FinastraDemo
    /\ compliance_rules = None
    /\ repo = None
    /\ scan = None
ReportIdle ==
    /\ compliance_issues = <<>>
    /\ total_repos = 0
    /\ report = None
    /\ prev_report = None
    /\ report_file = None
    /\ report_calls = 0

LabelsIdle ==
    /\ host_labels = <<>>
    /\ desired_labels = <<>>
    /\ last_apply = None
    /\ prev_apply = None

UsersIdle == responsible_users = None

PublishIdle ==
    /\ dry_run = FALSE
    /\ enable_assignment = TRUE
    /\ host_repos = <<>>
    /\ admin = None
    /\ publish = None

MainIdle ==
    /\ env = None
    /\ exit_code = -1
    /\ events = {}
    /\ outputs = <<>>
    /\ org_repos = <<>>
    /\ repositories = <<>>
    /\ scan_index = 0
    /\ successful_scans = 0
    /\ failed_scans = 0
    /\ sleeps = 0
    /\ mutations = <<>>

\* time passes
Tick ==
    /\ now < ScanHour + MaxTicks
    /\ now' = now + 1
    /\ UNCHANGED <<pc, inspectVars, reportVars, labelVars, userVars, publishVars, mainVars>>

(***************************************************************************)
(* SpecInspect: the rules of one organization are loaded and one           *)
(* repository is inspected against them.  Every organization name is       *)
(* tried with the snapshots one change away from RepoGood or RepoBad, one  *)
(* organization of each rule set with those two changes away.              *)
(***************************************************************************)
InitInspect ==
    /\ pc = "start"
    /\ now = ScanHour
    /\ \/ org_name \in MainOrgs /\ repo \in SampleRepos
       \/ org_name \in SampleOrgs /\ repo \in Vary(RepoGood) \cup Vary(RepoBad)
    /\ compliance_rules = None
    /\ scan = None
    /\ ReportIdle
    /\ LabelsIdle
    /\ UsersIdle
    /\ PublishIdle
    /\ MainIdle

LoadRules ==
    /\ pc = "start"
    /\ compliance_rules' = get_compliance_rules(org_name)
    /\ pc' = "rules"
    /\ UNCHANGED <<now, org_name, repo, scan, reportVars, labelVars, userVars, publishVars, mainVars>>

Inspect ==
    /\ pc = "rules"
    /\ scan' = check_repository_compliance(repo, compliance_rules, now)
    /\ pc' = "inspected"
    /\ UNCHANGED <<now, org_name, repo, compliance_rules, reportVars, labelVars, userVars, publishVars, mainVars>>

NextInspect == LoadRules \/ Inspect

SpecInspect == InitInspect /\ [][NextInspect]_vars

(***************************************************************************)
(* Properties of SpecInspect                                               *)
(***************************************************************************)
\* C1: a repository whose archived attribute is true gets a result with no
\* violation and no label, whatever its other attributes are, and none of
\* the six checks runs on it.
ArchivedIsSkipped ==
    (pc = "inspected" /\ repo.meta_ok /\ repo.archived) =>
        /\ ~scan.raised
        /\ scan.issues.violations = <<>>
        /\ scan.issues.labels = <<>>
        /\ scan.ran = <<>>

\* an archived repository that breaks most rules has been inspected
ArchivedBadRepoInspected ==
    /\ pc = "inspected"
    /\ repo = [RepoBad EXCEPT !.archived = TRUE]
    /\ scan.issues.violations = <<>>

SameIgnoringCase(a, b) ==
    /\ Len(a) = Len(b)
    /\ \A i \in DOMAIN a : LowerChar(a[i]) = LowerChar(b[i])

\* C10: get_compliance_rules always returns a rule set, and returns the
\* generic one (prefixes a-, e-, t-, p- and the general pattern) for every
\* name that is not exactly finastra-demo and not, ignoring case,
\* arctiqteam or arctiq-team.
UnknownOrgGetsGenericRules ==
    pc # "start" =>
        /\ compliance_rules \in {RulesFinastra, RulesArctiq, RulesGeneric}
        /\ ( /\ org_name # FinastraDemo
             /\ ~SameIgnoringCase(org_name, ArctiqTeam)
             /\ ~SameIgnoringCase(org_name, ArctiqDashTeam) ) =>
                /\ DOMAIN compliance_rules =
                      {"required_prefixes", "naming_pattern", "description"}
                /\ compliance_rules.required_prefixes =
                      << <<"a","-">>, <<"e","-">>, <<"t","-">>, <<"p","-">> >>
                /\ compliance_rules.naming_pattern = PatternGeneric

\* the rules were loaded for Finastra-Demo, which differs from finastra-demo
\* in letter case only, and are the generic ones
CapitalizedFinastraGetsGeneric ==
    /\ pc = "rules"
    /\ org_name = OrgFinastraCaps
    /\ compliance_rules = RulesGeneric

\* the repository was read and its six checks ran
Inspected == pc = "inspected" /\ ~scan.raised /\ scan.ran # <<>>

\* the labels of the result, and how many of them belong to a set
ResultLabels == Range(scan.issues.labels)
LabelCount(S) == Cardinality({k \in DOMAIN scan.issues.labels : scan.issues.labels[k] \in S})

NamingLabels == {"naming:missing-prefix", "naming:non-compliant"}
\* the violations that start with the words 'Repository name'
NamingViolations ==
    {k \in DOMAIN scan.issues.violations :
        /\ scan.issues.violations[k][1] = "Repository"
        /\ scan.issues.violations[k][2] = "name"}

\* the prefixes a rule set allows
AllowedPrefixes(rules) ==
    IF "required_prefix" \in DOMAIN rules THEN {rules.required_prefix}
    ELSE Range(rules.required_prefixes)

HasAllowedPrefix ==
    \E p \in AllowedPrefixes(compliance_rules) :
        /\ Len(p) <= Len(repo.name)
        /\ \A k \in DOMAIN p : repo.name[k] = p[k]

\* C11: a repository whose name starts with an allowed prefix of the rule
\* set and matches the naming pattern of the rule set gets no naming
\* violation and no naming label.
ValidNameHasNoNamingViolation ==
    ( /\ Inspected
      /\ HasAllowedPrefix
      /\ ReMatch(compliance_rules.naming_pattern, repo.name, TRUE) ) =>
        /\ ResultLabels \cap NamingLabels = {}
        /\ NamingViolations = {}

\* action-ci-tools, valid under the rules of arctiqteam, was inspected in a
\* repository that breaks other rules
ValidNameInspected ==
    /\ Inspected
    /\ org_name = ArctiqTeam
    /\ repo = [RepoBad EXCEPT !.name = NameActionCi]
    /\ scan.issues.labels # <<>>
    /\ ResultLabels \cap NamingLabels = {}

\* whole days between the last push and the scan
DaysIdle == (now - repo.pushed_at) \div HoursPerDay
NoReadme == \A k \in DOMAIN ReadmeFiles : repo.files[ReadmeFiles[k]] < 0

\* my-service of finastra-demo: public, pushed 400 days ago, no README, 5 KB
ScenarioBad ==
    /\ Inspected
    /\ org_name = FinastraDemo
    /\ repo.name = NameMyService
    /\ ~repo.private
    /\ repo.pushed_at >= 0
    /\ DaysIdle = 400
    /\ NoReadme
    /\ repo.size = 5

\* C12: for finastra-demo the public repository my-service, pushed 400
\* days ago, without README and of 5 KB gets the labels
\* naming:missing-prefix, missing:readme, activity:archived and
\* quality:minimal, whatever its other attributes are, and is non-compliant.
BadScenarioIsFlagged ==
    ScenarioBad =>
        /\ {"naming:missing-prefix", "missing:readme", "activity:archived",
            "quality:minimal"} \subseteq ResultLabels
        /\ scan.issues.violations # <<>>

\* the scenario was inspected on a repository with a protected branch and
\* topics
BadScenarioInspected ==
    /\ ScenarioBad
    /\ repo = [RepoBad EXCEPT !.branch = "protected_checks", !.topics = 2]
    /\ Len(scan.issues.labels) >= 4

\* the first README candidate that can be read, 0 when none can
FirstReadme ==
    IF NoReadme THEN 0
    ELSE CHOOSE k \in DOMAIN ReadmeFiles :
            /\ repo.files[ReadmeFiles[k]] >= 0
            /\ \A j \in 1..(k - 1) : repo.files[ReadmeFiles[j]] < 0

\* FD-team-my-service under the rules of finastra-demo: pushed yesterday,
\* a README of 150 characters, a .gitignore, a description of 40
\* characters, a protected default branch
ScenarioGood ==
    /\ Inspected
    /\ compliance_rules = RulesFinastra
    /\ repo.name = NameFDService
    /\ repo.pushed_at >= 0
    /\ DaysIdle = 1
    /\ FirstReadme # 0
    /\ repo.files[ReadmeFiles[FirstReadme]] = 150
    /\ repo.files[".gitignore"] >= 0
    /\ ~repo.description.none
    /\ Len(repo.description.text) = 40
    /\ repo.default_branch # ""
    /\ repo.branch \in {"protected_no_checks", "protected_checks", "protected_unreadable"}

\* C13 as claimed: the repository of the scenario gets no violation.
GoodScenarioHasNoViolation ==
    ScenarioGood => scan.issues.violations = <<>>

\* C13, amended: the repository of the scenario gets no violation when,
\* in addition, its description keeps 10 characters once stripped of blanks,
\* it is private or has a LICENSE file, it has a CODEOWNERS file, the
\* protection of its branch requires status checks or cannot be read, its
\* size is at least 10 KB and its topics are not an empty list.
GoodScenarioWithAllFilesHasNoViolation ==
    ( /\ ScenarioGood
      /\ Len(Strip(repo.description.text)) >= 10
      /\ repo.private \/ \E k \in DOMAIN LicenseFiles : repo.files[LicenseFiles[k]] >= 0
      /\ \E k \in DOMAIN CodeownersLocations : repo.files[CodeownersLocations[k]] >= 0
      /\ repo.branch \in {"protected_checks", "protected_unreadable"}
      /\ repo.size >= 10
      /\ repo.topics # 0 ) =>
        /\ scan.issues.violations = <<>>
        /\ scan.issues.labels = <<>>

\* the scenario was inspected on a private repository without LICENSE
PrivateGoodScenarioInspected ==
    /\ ScenarioGood
    /\ repo.private
    /\ \A k \in DOMAIN LicenseFiles : repo.files[LicenseFiles[k]] < 0
    /\ scan.issues.violations = <<>>

\* C17 as claimed: the pattern violation is reported exactly when the name
\* is not a full match of the naming pattern as written.
PatternViolationAsWritten ==
    Inspected =>
        ("naming:non-compliant" \in ResultLabels
            <=> ~ReMatch(compliance_rules.naming_pattern, repo.name, FALSE))

\* C17, amended: the pattern violation is reported exactly when the name is
\* not a full match of the naming pattern with letter case ignored, the
\* prefix violation exactly when the name starts with no allowed prefix
\* (letter case counting), each at most once and one independently of the
\* other.
PatternViolationIgnoringCase ==
    Inspected =>
        /\ "naming:non-compliant" \in ResultLabels
              <=> ~ReMatch(compliance_rules.naming_pattern, repo.name, TRUE)
        /\ "naming:missing-prefix" \in ResultLabels <=> ~HasAllowedPrefix
        /\ LabelCount({"naming:non-compliant"}) <= 1
        /\ LabelCount({"naming:missing-prefix"}) <= 1
        /\ Cardinality(NamingViolations) = LabelCount(NamingLabels)

\* fd-team-svc under the rules of finastra-demo: the prefix violation only,
\* though the name does not match the pattern as written
LowerCaseNameInspected ==
    /\ Inspected
    /\ compliance_rules = RulesFinastra
    /\ repo.name = NameLowerFD
    /\ ~ReMatch(compliance_rules.naming_pattern, repo.name, FALSE)
    /\ ResultLabels \cap NamingLabels = {"naming:missing-prefix"}

ActivityLabels == {"activity:never-used", "activity:archived", "activity:stale"}

\* C18: the activity check adds at most one label, by the whole days since
\* the last push: activity:never-used when there is no push,
\* activity:archived above 365 days, activity:stale above 180 and up to
\* 365 days, none up to 180 days.
ActivityLabelByDays ==
    Inspected =>
        /\ LabelCount(ActivityLabels) <= 1
        /\ "activity:never-used" \in ResultLabels <=> repo.pushed_at = -1
        /\ "activity:archived" \in ResultLabels
              <=> (repo.pushed_at # -1 /\ DaysIdle > InactiveDays)
        /\ "activity:stale" \in ResultLabels
              <=> (repo.pushed_at # -1 /\ DaysIdle > StaleDays /\ DaysIdle <= InactiveDays)

\* a repository pushed 180 days and 23 hours ago was inspected and got no
\* activity label
PushedAtTheStaleLimitInspected ==
    /\ Inspected
    /\ repo.pushed_at = now - StaleDays * HoursPerDay - 23
    /\ ResultLabels \cap ActivityLabels = {}

\* the violations that report a README as too short
ShortReadmeViolations ==
    {k \in DOMAIN scan.issues.violations :
        /\ Len(scan.issues.violations[k]) >= 5
        /\ SubSeq(scan.issues.violations[k], 2, 5) = <<"file", "is", "too", "short">>}

\* C19: the README check stops at the first candidate, in the fixed order,
\* that can be read: the result holds missing:readme exactly when that
\* candidate has fewer than 100 characters or no candidate can be read,
\* whatever the later candidates hold, the violation names that candidate,
\* and missing:readme is never held twice.
ReadmeStopsAtFirstReadable ==
    Inspected =>
        /\ "missing:readme" \in ResultLabels
              <=> (FirstReadme = 0 \/ repo.files[ReadmeFiles[FirstReadme]] < ReadmeMinChars)
        /\ LabelCount({"missing:readme"}) <= 1
        /\ \A k \in ShortReadmeViolations :
              /\ FirstReadme # 0
              /\ scan.issues.violations[k][1] = ReadmeFiles[FirstReadme]

\* README.md has 99 characters and README.rst 150: the README is reported
\* as too short
LongerReadmeBehindShortOne ==
    /\ Inspected
    /\ repo.files["README.md"] = 99
    /\ repo.files["README.rst"] = 150
    /\ LabelCount({"missing:readme"}) = 1
    /\ ShortReadmeViolations # {}

SecurityLabels ==
    {"security:branch-access-error", "security:no-branch-protection",
     "security:insufficient-protection"}

\* C20: the branch check adds at most one security label:
\* security:branch-access-error exactly when the read of the default
\* branch raises, security:no-branch-protection exactly when the branch is
\* read and is not protected, security:insufficient-protection exactly
\* when it is protected and its protection is read and requires no status
\* check; a protected branch whose protection cannot be read adds nothing
\* (nor does a repository without default branch, for which no read is
\* made).
BranchLabelByOutcome ==
    Inspected =>
        /\ LabelCount(SecurityLabels) <= 1
        /\ "security:branch-access-error" \in ResultLabels
              <=> (repo.default_branch # "" /\ repo.branch = "unreadable")
        /\ "security:no-branch-protection" \in ResultLabels
              <=> (repo.default_branch # "" /\ repo.branch = "unprotected")
        /\ "security:insufficient-protection" \in ResultLabels
              <=> (repo.default_branch # "" /\ repo.branch = "protected_no_checks")

\* a repository whose branch is protected and whose protection cannot be
\* read was inspected and is compliant
UnreadableProtectionInspected ==
    /\ Inspected
    /\ repo = [RepoGood EXCEPT !.branch = "protected_unreadable"]
    /\ scan.issues.labels = <<>>

\* the label the check step that writes a violation message appends with it
OwnLabel(violation) ==
    LET Opens(words) == Len(violation) >= Len(words)
                            /\ SubSeq(violation, 1, Len(words)) = words
    IN  CASE Opens(<<"Repository", "name", "must">>) -> "naming:missing-prefix"
          [] Opens(<<"Repository", "name", "does">>) -> "naming:non-compliant"
          [] Len(violation) >= 3 /\ SubSeq(violation, 2, 3) = <<"file", "is">>
                -> "missing:readme"
          [] Opens(<<"No", "README">>) -> "missing:readme"
          [] Opens(<<"No", ".gitignore">>) -> "missing:gitignore"
          [] Opens(<<"No", "LICENSE">>) -> "missing:license"
          [] Opens(<<"No", "CODEOWNERS">>) -> "missing:codeowners"
          [] Opens(<<"Default", "branch">>) -> "security:no-branch-protection"
          [] Opens(<<"Branch", "protection">>) -> "security:insufficient-protection"
          [] Opens(<<"Cannot", "access">>) -> "security:branch-access-error"
          [] Opens(<<"Repository", "description">>) -> "missing:description"
          [] Opens(<<"Repository", "inactive">>) -> "activity:archived"
          [] Opens(<<"Repository", "stale">>) -> "activity:stale"
          [] Opens(<<"Repository", "has", "never">>) -> "activity:never-used"
          [] Opens(<<"Repository", "appears">>) -> "quality:empty"
          [] Opens(<<"Repository", "has", "minimal">>) -> "quality:minimal"
          [] Opens(<<"Repository", "has", "no", "topics">>) -> "missing:topics"
          [] OTHER -> "none"

\* C26: in every result of check_repository_compliance the violations and
\* the labels have the same length, the i-th label is the one appended with
\* the i-th violation, and the positional lookup of the priority icon,
\* labels[min(i-1, len(labels)-1)], yields that label.
LabelsInLockstepWithViolations ==
    (pc = "inspected" /\ ~scan.raised) =>
        /\ Len(scan.issues.violations) = Len(scan.issues.labels)
        /\ \A i \in DOMAIN scan.issues.violations :
              /\ i \in DOMAIN scan.issues.labels
              /\ scan.issues.labels[i] = OwnLabel(scan.issues.violations[i])
              /\ IconLabel(scan.issues.labels, i) = OwnLabel(scan.issues.violations[i])

\* a result of seven violations or more whose last violation carries a
\* high-priority label behind labels of lower priority
HighPriorityLabelBehindOthers ==
    /\ Inspected
    /\ Len(scan.issues.violations) >= 7
    /\ \E i, j \in DOMAIN scan.issues.labels :
          /\ i < j
          /\ scan.issues.labels[i] \notin HighPriorityLabels
          /\ scan.issues.labels[j] \in HighPriorityLabels

(***************************************************************************)
(* SpecReport: generate_compliance_report is called, again and again, on   *)
(* one frozen list of results and one total, while the clock runs.         *)
(***************************************************************************)
InitReport ==
    /\ pc = "start"
    /\ now = ScanHour
    /\ InspectIdle
    /\ compliance_issues \in ListsOf(SampleResults, MaxIssues)
    /\ total_repos \in 0..MaxTotal
    /\ report = None
    /\ prev_report = None
    /\ report_file = None
    /\ report_calls = 0
    /\ LabelsIdle
    /\ UsersIdle
    /\ PublishIdle
    /\ MainIdle

GenerateReport ==
    /\ report_calls < MaxReportCalls
    /\ LET r == generate_compliance_report(org_name, compliance_issues, total_repos, now)
       IN  /\ report' = r
           /\ report_file' = IF r.raised THEN report_file ELSE r
    /\ prev_report' = report
    /\ report_calls' = report_calls + 1
    /\ pc' = "reported"
    /\ UNCHANGED <<now, inspectVars, compliance_issues, total_repos, labelVars, userVars, publishVars, mainVars>>

NextReport == GenerateReport \/ Tick

SpecReport == InitReport /\ [][NextReport]_vars

(***************************************************************************)
(* Properties of SpecReport                                                *)
(***************************************************************************)
\* C2 as claimed: whatever the list and the total, the compliance rate lies
\* in [0, 100], and is 100 when the total is 0.
RateInRangeForAnyList ==
    pc = "reported" =>
        /\ report.summary.compliance_rate \in 0..1000
        /\ total_repos = 0 => report.summary.compliance_rate = 1000

\* C2, amended: when the list holds no more results than total_repos, the
\* compliance rate lies in [0, 100]; it is 100 when total_repos is 0,
\* whatever the list.
RateInRange ==
    pc = "reported" =>
        /\ Len(compliance_issues) <= total_repos =>
              report.summary.compliance_rate \in 0..1000
        /\ total_repos = 0 => report.summary.compliance_rate = 1000

\* one result of three repositories: a rate of 66.7
TwoOfThreeCompliant ==
    /\ pc = "reported"
    /\ total_repos = 3
    /\ Len(compliance_issues) = 1
    /\ report.summary.compliance_rate = 667

RECURSIVE SumCounts(_)
SumCounts(dict) == IF dict = <<>> THEN 0 ELSE Head(dict).count + SumCounts(Tail(dict))
RECURSIVE TotalViolations(_)
TotalViolations(issues) ==
    IF issues = <<>> THEN 0
    ELSE Len(Head(issues).violations) + TotalViolations(Tail(issues))

\* C3: the counts of issue_categories add up to the number of violation
\* messages of all the results passed in.
CategoryCountsSumToViolations ==
    pc = "reported" =>
        SumCounts(report.analysis.issue_categories) = TotalViolations(compliance_issues)

\* a report over several results in which some category was counted twice
SeveralResultsCounted ==
    /\ pc = "reported"
    /\ Len(compliance_issues) >= 2
    /\ \E i \in DOMAIN report.analysis.issue_categories :
          report.analysis.issue_categories[i].count >= 2
    /\ Len(report.analysis.issue_categories) >= 2

\* C6 as claimed: a second call with the same organization, list and total
\* returns a report equal to the first in every field.
SameInputsSameReport ==
    report_calls >= 2 => report = prev_report

\* C23: top_violations lists at most 10 (category, count) pairs of
\* issue_categories in non-increasing order of count, and categories with
\* equal counts appear in the order in which they were first inserted into
\* issue_categories.
TopViolationsSortedStably ==
    (pc = "reported" /\ ~report.raised) =>
        LET categories == report.analysis.issue_categories
            top == report.analysis.top_violations
            InsertedAt(key) == CHOOSE k \in DOMAIN categories : categories[k].key = key
        IN  /\ Len(top) <= 10
            /\ \A i \in DOMAIN top : \E k \in DOMAIN categories : categories[k] = top[i]
            /\ \A i, j \in DOMAIN top :
                  i < j =>
                      /\ top[i].count >= top[j].count
                      /\ top[i].count = top[j].count
                            => InsertedAt(top[i].key) < InsertedAt(top[j].key)

\* a report whose sort moved a category forward, past two categories of
\* equal count that it left in their order of insertion
TiedCategoriesBehindALargerOne ==
    /\ pc = "reported"
    /\ ~report.raised
    /\ LET categories == report.analysis.issue_categories
           top == report.analysis.top_violations
       IN  /\ Len(top) >= 3
           /\ \E i, j, k \in DOMAIN categories :
                 /\ i < j /\ j < k
                 /\ categories[i].count = categories[j].count
                 /\ categories[k].count > categories[i].count
                 /\ top[1] = categories[k]

(***************************************************************************)
(* SpecLabels: apply_compliance_labels is called, again and again, with    *)
(* one list of labels on one repository; any host call may fail.  A later  *)
(* run calls it with another list.                                         *)
(***************************************************************************)
InitLabels ==
    /\ pc = "start"
    /\ now = ScanHour
    /\ InspectIdle
    /\ ReportIdle
    /\ host_labels \in [{NameMyService} -> SUBSET SampleExistingLabels]
    /\ desired_labels \in SeqsOf(SampleDesiredLabels, MaxDesired)
    /\ last_apply = None
    /\ prev_apply = None
    /\ UsersIdle
    /\ PublishIdle
    /\ MainIdle

ApplyLabels ==
    /\ \E outcomes \in [DOMAIN desired_labels -> HostOutcomes] :
          LET before == host_labels[NameMyService]
              r == apply_compliance_labels(before, desired_labels, outcomes)
          IN  /\ host_labels' = [host_labels EXCEPT ![NameMyService] = r.existing]
              /\ last_apply' = [before |-> before,
                                after |-> r.existing,
                                creates |-> r.creates,
                                success_count |-> r.success_count,
                                failed |-> \E k \in DOMAIN outcomes : outcomes[k] # "ok"]
    /\ prev_apply' = last_apply
    /\ pc' = "applied"
    /\ UNCHANGED <<now, inspectVars, reportVars, desired_labels, userVars, publishVars, mainVars>>

\* a later run of main: the inspector finds other violations, and the loop
\* of lines 164-173 calls apply_compliance_labels with their labels
NextRun ==
    /\ pc = "applied"
    /\ desired_labels' \in SeqsOf(SampleDesiredLabels, MaxDesired) \ {desired_labels}
    /\ last_apply' = None
    /\ prev_apply' = None
    /\ pc' = "start"
    /\ UNCHANGED <<now, inspectVars, reportVars, host_labels, userVars, publishVars,
                   mainVars>>

NextLabels == ApplyLabels \/ NextRun

SpecLabels == InitLabels /\ [][NextLabels]_vars

(***************************************************************************)
(* Properties of SpecLabels                                                *)
(***************************************************************************)
\* the labels the call created
CreatedBy(call) == {call.creates[i].label : i \in {j \in DOMAIN call.creates :
                                                      call.creates[j].ok}}
\* the labels the call issued a create_label for
AskedBy(call) == {call.creates[i].label : i \in DOMAIN call.creates}

\* C4 as claimed: a second call with the same labels leaves the repository
\* with the labels it had after the first, and issues no create_label for a
\* label the first call created.
SecondApplyChangesNothing ==
    prev_apply # None =>
        /\ last_apply.after = prev_apply.after
        /\ AskedBy(last_apply) \cap CreatedBy(prev_apply) = {}

\* C4, amended: a second call with the same labels issues no create_label
\* for a label the first call created, and leaves the repository with the
\* labels it had after the first call when no host call of the first call
\* failed.
SecondApplyChangesNothingAfterSuccess ==
    prev_apply # None =>
        /\ ~prev_apply.failed => last_apply.after = prev_apply.after
        /\ AskedBy(last_apply) \cap CreatedBy(prev_apply) = {}

\* a first call created two labels and a second call, all host calls
\* succeeding, issued no create_label and counted both labels
SecondApplyAfterCreation ==
    /\ prev_apply # None
    /\ Cardinality(CreatedBy(prev_apply)) = 2
    /\ ~prev_apply.failed
    /\ ~last_apply.failed
    /\ last_apply.creates = <<>>
    /\ last_apply.success_count = 2

\* C30: across any sequence of runs the checker never deletes a label from
\* a scanned repository: the label set of the repository only grows, so a
\* compliance label created in an earlier run is still there after a later
\* run in which the violation no longer exists.
LabelsOnlyGrow ==
    [][\A n \in DOMAIN host_labels : host_labels[n] \subseteq host_labels'[n]]_vars

\* the repository holds naming:missing-prefix, which it did not hold before
\* the first run, after a run without failures that did not ask for it
LabelKeptAfterViolationGone ==
    /\ last_apply # None
    /\ ~last_apply.failed
    /\ "naming:missing-prefix" \in host_labels[NameMyService]
    /\ "naming:missing-prefix" \notin Range(desired_labels)
    /\ desired_labels # <<>>

(***************************************************************************)
(* SpecUsers: get_responsible_users is run on one repository.              *)
(***************************************************************************)
InitUsers ==
    /\ pc = "start"
    /\ now = ScanHour
    /\ org_name = FinastraDemo
    /\ compliance_rules = None
    /\ repo \in SampleUserRepos
    /\ scan = None
    /\ ReportIdle
    /\ LabelsIdle
    /\ responsible_users = None
    /\ PublishIdle
    /\ MainIdle

ResolveUsers ==
    /\ pc = "start"
    /\ responsible_users' = get_responsible_users(repo)
    /\ pc' = "resolved"
    /\ UNCHANGED <<now, inspectVars, reportVars, labelVars, publishVars, mainVars>>

NextUsers == ResolveUsers

SpecUsers == InitUsers /\ [][NextUsers]_vars

(***************************************************************************)
(* Properties of SpecUsers                                                 *)
(***************************************************************************)
NoDuplicates(s) == \A i, j \in DOMAIN s : s[i] = s[j] => i = j

\* C5: the list get_responsible_users returns has at most 3 entries and
\* holds no username twice.
AtMostThreeDistinctUsers ==
    pc = "resolved" =>
        /\ Len(responsible_users) <= 3
        /\ NoDuplicates(responsible_users)

\* the tiers gathered one username twice, and two users are returned
DuplicateGathered ==
    /\ pc = "resolved"
    /\ ~NoDuplicates(AfterOwner(repo))
    /\ Len(responsible_users) = 2

\* the file get_responsible_users takes its CODEOWNERS candidates from: the
\* first readable one that names an owner; None when there is none
RECURSIVE OwnersFileUsed(_, _)
OwnersFileUsed(r, locations) ==
    IF locations = <<>> THEN None
    ELSE LET file == r.codeowners[Head(locations)]
         IN  IF file.ok /\ IndividualOwners(FindOwners(file.text)) # <<>>
             THEN file.text
             ELSE OwnersFileUsed(r, Tail(locations))

\* the positions of the "@" that open a team reference, @owner/team
TeamReferences(text) ==
    {i \in 1..(Len(text) - 1) :
        /\ text[i] = "@"
        /\ text[i + 1] \in OwnerChars
        /\ RunEnd(text, i + 1) < Len(text)
        /\ text[RunEnd(text, i + 1) + 1] = "/"}
OwnerPart(text, i) == SubSeq(text, i + 1, RunEnd(text, i + 1))
TeamPart(text, i) ==
    LET slash == RunEnd(text, i + 1) + 1
    IN  IF slash < Len(text) /\ text[slash + 1] \in OwnerChars
        THEN SubSeq(text, slash + 1, RunEnd(text, slash + 1))
        ELSE <<>>

\* the usernames the repository supplies other than by a team reference:
\* collaborators, committers, the owning account, and the @username tokens
\* of the file that are not followed by "/"
NamedOutsideTeams(r, text) ==
    {r.collaborators.list[k].login : k \in DOMAIN r.collaborators.list}
        \cup Range(r.commits.authors) \cup {r.owner}
        \cup {OwnerPart(text, i) : i \in {j \in 1..(Len(text) - 1) :
                                            /\ text[j] = "@"
                                            /\ text[j + 1] \in OwnerChars
                                            /\ j \notin TeamReferences(text)}}

\* C21: when get_responsible_users parses a CODEOWNERS file, neither the
\* owner part nor the team part of an @owner/team token of the file is
\* added to the responsible-user list (a name the repository supplies in
\* another way set aside).
NoCandidateFromTeamReference ==
    (pc = "resolved" /\ Len(AfterCollaborators(repo)) < OwnersWanted) =>
        LET text == OwnersFileUsed(repo, OwnersLocations)
        IN  \A i \in TeamReferences(text) :
                \A part \in {OwnerPart(text, i), TeamPart(text, i)} :
                    part \notin NamedOutsideTeams(repo, text)
                        => ~InSeq(part, responsible_users)

\* what each tier offers for the repository r: up to 2 administrators, up
\* to 2 maintainers, up to 2 owners of the CODEOWNERS file, up to 3 recent
\* committers, the owning account
TierOffer(r, tier) ==
    CASE tier = 1 -> IF r.collaborators.ok
                     THEN Take(Admins(r.collaborators.list), AdminLimit) ELSE <<>>
      [] tier = 2 -> IF r.collaborators.ok
                     THEN Take(Maintainers(r.collaborators.list), MaintainerLimit)
                     ELSE <<>>
      [] tier = 3 -> OwnersFrom(r, OwnersLocations)
      [] tier = 4 -> IF r.commits.ok THEN RecentCommitters(r) ELSE <<>>
      [] OTHER -> IF r.owner_ok /\ r.owner # <<>> THEN <<r.owner>> ELSE <<>>
Tiers == 1..5
OfferedBy(r, tiers) == UNION {Range(TierOffer(r, t)) : t \in tiers}

\* the size of the accumulated list after the administrators, after the
\* maintainers, and after the CODEOWNERS file
AccumulatedAdmins(r) == Len(TierOffer(r, 1))
AccumulatedCollaborators(r) ==
    AccumulatedAdmins(r)
        + (IF AccumulatedAdmins(r) < 2 THEN Len(TierOffer(r, 2)) ELSE 0)
AccumulatedOwners(r) ==
    AccumulatedCollaborators(r)
        + (IF AccumulatedCollaborators(r) < 2 THEN Len(TierOffer(r, 3)) ELSE 0)

\* the earliest tier that offers the user
TierOf(r, user) ==
    CHOOSE t \in Tiers :
        /\ user \in OfferedBy(r, {t})
        /\ \A earlier \in 1..(t - 1) : user \notin OfferedBy(r, {earlier})

\* C22: each tier is consulted only while the accumulated list is under its
\* target size (maintainers and CODEOWNERS under 2, recent committers under
\* 3, the owning account when the list is empty), and in the returned list
\* the users of an earlier tier precede the users of a later tier.
TiersAreGatedAndOrdered ==
    pc = "resolved" =>
        LET returned == Range(responsible_users)
        IN  /\ AccumulatedAdmins(repo) >= 2 => returned \subseteq OfferedBy(repo, {1, 4})
            /\ AccumulatedCollaborators(repo) >= 2
                  => returned \subseteq OfferedBy(repo, {1, 2, 4})
            /\ AccumulatedOwners(repo) >= 3
                  => returned \subseteq OfferedBy(repo, {1, 2, 3})
            /\ returned \subseteq OfferedBy(repo, Tiers)
            /\ \A user \in returned :
                  user \notin OfferedBy(repo, {1, 2, 3, 4})
                      => responsible_users = <<user>>
            /\ \A i, j \in DOMAIN responsible_users :
                  i < j => TierOf(repo, responsible_users[i])
                              <= TierOf(repo, responsible_users[j])

\* two administrators fill the list before the maintainers and the
\* CODEOWNERS file, which both name somebody else, are consulted, and a
\* committer takes the third place
CommitterAfterTwoAdmins ==
    /\ pc = "resolved"
    /\ AccumulatedAdmins(repo) = 2
    /\ TierOffer(repo, 2) # <<>>
    /\ ~(Range(TierOffer(repo, 3)) \subseteq OfferedBy(repo, {1, 4}))
    /\ Len(responsible_users) = 3
    /\ TierOf(repo, responsible_users[3]) = 4

(***************************************************************************)
(* SpecPublish: the publishing step of main is run again and again on one  *)
(* day over the same results; any host call may fail.                      *)
(***************************************************************************)
InitPublish ==
    /\ pc = "start"
    /\ now = ScanHour
    /\ InspectIdle
    /\ compliance_issues \in SamplePublishLists
    /\ total_repos = Len(compliance_issues) + 1
    /\ report = generate_compliance_report(org_name, compliance_issues, total_repos, now)
    /\ prev_report = None
    /\ report_file = None
    /\ report_calls = 0
    /\ LabelsIdle
    /\ UsersIdle
    /\ dry_run = FALSE
    /\ enable_assignment \in BOOLEAN
    /\ host_repos \in SampleHostRepos
    /\ admin \in SampleAdmins
    /\ publish = [runs |-> 0, raised |-> FALSE, clean |-> FALSE, clean_before |-> FALSE,
                  read_failed |-> FALSE]
    /\ MainIdle

\* a host call that reads (get_issues, get_labels, get_repo) raises in a run
\* with this fault
ReadFails(fault) ==
    \/ fault.summary \in {"read", "get_labels"}
    \/ \E k \in DOMAIN fault.repos : fault.repos[k] = "read"
    \/ /\ enable_assignment
       /\ \E k \in DOMAIN compliance_issues :
             /\ HasHighPriority(compliance_issues[k])
             /\ FullName(compliance_issues[k].url) \notin DOMAIN host_repos

Publish ==
    /\ publish.runs < MaxRuns
    /\ \E fault \in Faults(Len(compliance_issues)) :
          LET r == PublishIssues([admin EXCEPT !.log = <<>>], host_repos, org_name,
                                 compliance_issues, report, Today(now), dry_run,
                                 enable_assignment, fault)
          IN  /\ admin' = r.h
              /\ publish' = [runs |-> publish.runs + 1,
                             raised |-> r.raised,
                             clean |-> NoFault(fault),
                             clean_before |-> publish.clean \/ publish.clean_before,
                             read_failed |-> ReadFails(fault)]
    /\ pc' = "published"
    /\ UNCHANGED <<now, inspectVars, reportVars, labelVars, userVars,
                   dry_run, enable_assignment, host_repos, mainVars>>

NextPublish == Publish

SpecPublish == InitPublish /\ [][NextPublish]_vars

(***************************************************************************)
(* Properties of SpecPublish                                               *)
(***************************************************************************)
\* the open issues with this title
OpenTitled(title) ==
    {i \in DOMAIN admin.issues :
        admin.issues[i].state = "open" /\ admin.issues[i].title = title}

Flagged == {compliance_issues[k].name : k \in {j \in DOMAIN compliance_issues :
                                                  HasHighPriority(compliance_issues[j])}}

\* the issues the last run created
CreatedInRun ==
    {k \in DOMAIN admin.log : admin.log[k].op = "create_issue" /\ admin.log[k].ok}

\* the issue bodies the last run rewrote
UpdatedInRun ==
    {k \in DOMAIN admin.log : admin.log[k].op = "edit_body" /\ admin.log[k].ok}

\* C7 as claimed: after any number of runs on one day over the same results
\* the admin repository holds exactly one open summary issue of the day and
\* at most one open high-priority issue for each flagged repository, and
\* every run after the first creates no issue.
PublicationIsIdempotent ==
    publish.runs >= 1 =>
        /\ Cardinality(OpenTitled(SummaryTitle(Today(now)))) = 1
        /\ \A n \in Flagged : Cardinality(OpenTitled(HighPriorityTitle(n))) <= 1
        /\ publish.runs >= 2 => CreatedInRun = {}

\* C7, amended: whatever fails, the admin repository never holds more than
\* one open summary issue of the day nor more than one open high-priority
\* issue for a flagged repository; once a run over a non-empty result list
\* has gone through without a failing host call, the summary issue of the
\* day exists and every later run creates no issue.
PublicationIsIdempotentAfterCleanRun ==
    /\ Cardinality(OpenTitled(SummaryTitle(Today(now)))) <= 1
    /\ \A n \in Flagged : Cardinality(OpenTitled(HighPriorityTitle(n))) <= 1
    /\ (compliance_issues # <<>> /\ (publish.clean \/ publish.clean_before)) =>
            Cardinality(OpenTitled(SummaryTitle(Today(now)))) = 1
    /\ (compliance_issues # <<>> /\ publish.clean_before) => CreatedInRun = {}

\* a second run over two flagged repositories, after a first run without
\* failure, created nothing and rewrote the summary and both issues
SecondRunOnlyUpdates ==
    /\ publish.runs = 2
    /\ publish.clean_before
    /\ publish.clean
    /\ Cardinality(Flagged) = 2
    /\ CreatedInRun = {}
    /\ Cardinality(UpdatedInRun) = 3
    /\ \A n \in Flagged : Cardinality(OpenTitled(HighPriorityTitle(n))) = 1

\* the results that carry a high-priority label
FlaggedResults ==
    {k \in DOMAIN compliance_issues : HasHighPriority(compliance_issues[k])}

\* the calls of the last run that create or rewrite a high-priority issue,
\* failed ones included
RepositoryWrites ==
    {k \in DOMAIN admin.log :
        /\ admin.log[k].op \in {"create_issue", "edit_body"}
        /\ StartsWith(admin.log[k].on, HighPriorityTitlePrefix)}

\* the last run created or rewrote the summary issue of the day
SummaryWritten ==
    \E k \in DOMAIN admin.log :
        /\ admin.log[k].ok
        /\ admin.log[k].op \in {"create_issue", "edit_body"}
        /\ admin.log[k].on = SummaryTitle(Today(now))

\* C16: a failing creation or update of one issue does not abort the
\* batch: in a run in which every reading call succeeds and the summary
\* issue is written, the issue of every flagged repository is created or
\* rewritten (or the attempt is made and fails), with and without
\* auto-assignment.
WriteFailureDoesNotAbortBatch ==
    (publish.runs >= 1 /\ ~publish.read_failed /\ SummaryWritten) =>
        Cardinality(RepositoryWrites) = Cardinality(FlaggedResults)

InitMain ==
    /\ pc = "start"
    /\ now = ScanHour
    /\ InspectIdle
    /\ ReportIdle
    /\ desired_labels = <<>>
    /\ last_apply = None
    /\ prev_apply = None
    /\ UsersIdle
    /\ dry_run = FALSE
    /\ enable_assignment = TRUE
    /\ admin = AdminEmpty
    /\ publish = None
    /\ \/ env \in BaseEnvs /\ org_repos \in SampleListings
       \/ env \in OtherEnvs /\ org_repos = <<MainBad, MainGood>>
       \/ env \in {EnvLocal, EnvActions} /\ org_repos \in LongListings
    /\ host_repos = HostReposOf(org_repos)
    /\ host_labels = HostLabelsOf(org_repos)
    /\ exit_code = -1
    /\ events = {}
    /\ outputs = <<>>
    /\ repositories = <<>>
    /\ scan_index = 0
    /\ successful_scans = 0
    /\ failed_scans = 0
    /\ sleeps = 0
    /\ mutations = <<>>

\* exit(code), after the outputs a failing exit writes
ExitWith(code, happened, written) ==
    /\ exit_code' = code
    /\ events' = events \cup happened
    /\ outputs' = written
    /\ pc' = "exited"

\* lines 40-73
Startup ==
    /\ pc = "start"
    /\ IF TokenExit(env) # ""
       THEN /\ ExitWith(1, {TokenExit(env)}, outputs)
            /\ UNCHANGED <<org_name, dry_run, enable_assignment>>
       ELSE /\ org_name' = detect_organization(env, IsGithubActions(env))
            /\ dry_run' = DryRun(env)
            /\ enable_assignment' = EnableAssignment(env)
            /\ pc' = "validate"
            /\ UNCHANGED <<exit_code, events, outputs>>
    /\ UNCHANGED <<now, env, compliance_rules, repo, scan, reportVars, labelVars,
                   userVars, host_repos, admin, publish, runVars>>

\* line 80: validate_token_permissions returns or raises
Validate ==
    /\ pc = "validate"
    /\ \E outcome \in ValidateOutcomes :
          IF outcome = "ok"
          THEN pc' = "organization" /\ UNCHANGED <<exit_code, events, outputs>>
          ELSE ExitWith(1, {outcome}, FailedOutputs(outputs, env))
    /\ UNCHANGED <<now, env, inspectVars, reportVars, labelVars, userVars,
                   publishVars, runVars>>

\* lines 98-129
GetOrganization ==
    /\ pc = "organization"
    /\ \E ok \in BOOLEAN :
          IF ok
          THEN /\ compliance_rules' = get_compliance_rules(org_name)
               /\ pc' = "discover"
               /\ UNCHANGED <<exit_code, events, outputs>>
          ELSE /\ ExitWith(1, {"organization_denied"}, FailedOutputs(outputs, env))
               /\ UNCHANGED compliance_rules
    /\ UNCHANGED <<now, env, org_name, repo, scan, reportVars, labelVars, userVars,
                   publishVars, runVars>>

\* lines 133-158
Discover ==
    /\ pc = "discover"
    /\ \E page_ok \in BOOLEAN :
          LET found == Discovered(org_repos, page_ok)
          IN  IF found = <<>>
              THEN /\ ExitWith(1, {"no_repositories"}, FailedOutputs(outputs, env))
                   /\ UNCHANGED <<repositories, total_repos, scan_index>>
              ELSE /\ repositories' = found
                   /\ total_repos' = Len(found)
                   /\ scan_index' = 1
                   /\ pc' = "scan"
                   /\ UNCHANGED <<exit_code, events, outputs>>
    /\ UNCHANGED <<now, env, inspectVars, compliance_issues, report, prev_report,
                   report_file, report_calls, labelVars, userVars, publishVars,
                   org_repos, successful_scans, failed_scans, sleeps, mutations>>

\* one iteration of the loop of lines 160-190
ScanRepo ==
    /\ pc = "scan"
    /\ LET r == repositories[scan_index]
           res == check_repository_compliance(r, compliance_rules, now)
       IN  /\ repo' = r
           /\ scan' = res
           /\ IF ScanErrorIsFatal(res.raised)
              THEN /\ ExitWith(1, {"scan_failed"}, FailedOutputs(outputs, env))
                   /\ UNCHANGED <<compliance_issues, successful_scans, failed_scans,
                                  sleeps, host_labels, last_apply, prev_apply,
                                  mutations, scan_index>>
              ELSE /\ IF res.raised
                      THEN /\ failed_scans' = failed_scans + 1
                           /\ events' = events \cup {"scan_failed"}
                           /\ UNCHANGED <<compliance_issues, successful_scans, sleeps,
                                          host_labels, last_apply, prev_apply, mutations>>
                      ELSE /\ compliance_issues' =
                                  IF res.issues.violations # <<>>
                                  THEN Append(compliance_issues, res.issues)
                                  ELSE compliance_issues
                           /\ successful_scans' = successful_scans + 1
                           /\ sleeps' = IF scan_index % PacingEvery = 0 THEN sleeps + 1
                                        ELSE sleeps
                           /\ UNCHANGED failed_scans
                           /\ IF res.issues.violations # <<>> /\ ShouldApply(dry_run)
                              THEN \E outcomes \in LabelOutcomes(Len(res.issues.labels)) :
                                      LET a == apply_compliance_labels(host_labels[r.name],
                                                                       res.issues.labels, outcomes)
                                          failed == \E k \in DOMAIN outcomes :
                                                       \/ outcomes[k] = "get_labels_raises"
                                                       \/ /\ outcomes[k] = "create_label_raises"
                                                          /\ a.creates # <<>>
                                      IN  /\ host_labels' = [host_labels EXCEPT ![r.name] = a.existing]
                                          /\ last_apply' = [before |-> host_labels[r.name],
                                                            after |-> a.existing,
                                                            creates |-> a.creates,
                                                            success_count |-> a.success_count,
                                                            failed |-> failed]
                                          /\ prev_apply' = last_apply
                                          /\ mutations' = mutations \o LabelMutations(r.name, a.creates)
                                          /\ events' = IF failed THEN events \cup {"label_failed"}
                                                       ELSE events
                              ELSE UNCHANGED <<host_labels, last_apply, prev_apply, mutations, events>>
                   /\ scan_index' = scan_index + 1
                   /\ pc' = IF scan_index = total_repos THEN "report" ELSE "scan"
                   /\ UNCHANGED <<exit_code, outputs>>
    /\ UNCHANGED <<now, env, org_name, compliance_rules, total_repos, report,
                   prev_report, report_file, report_calls, desired_labels, userVars,
                   publishVars, org_repos, repositories>>

\* line 198; the report file is written or its write raises
ReportStep ==
    /\ pc = "report"
    /\ \E write_ok \in BOOLEAN :
          LET r == generate_compliance_report(org_name, compliance_issues, total_repos, now)
          IN  IF r.raised \/ ~write_ok
              THEN /\ ExitWith(1, {"output_failed"}, FailedOutputs(outputs, env))
                   /\ UNCHANGED <<report, report_file>>
              ELSE /\ report' = r
                   /\ report_file' = r
                   /\ pc' = "publish"
                   /\ UNCHANGED <<exit_code, events, outputs>>
    /\ prev_report' = report
    /\ report_calls' = report_calls + 1
    /\ UNCHANGED <<now, env, inspectVars, compliance_issues, total_repos, labelVars,
                   userVars, publishVars, runVars>>

\* lines 202-214
PublishStep ==
    /\ pc = "publish"
    /\ \E fault \in MainFaults(Len(compliance_issues)) :
          LET r == PublishIssues([admin EXCEPT !.log = <<>>], host_repos, org_name,
                                 compliance_issues, report, Today(now), dry_run,
                                 enable_assignment, fault)
              failed == r.raised \/ \E k \in DOMAIN r.h.log : ~r.h.log[k].ok
          IN  /\ admin' = r.h
              /\ mutations' = mutations \o AdminMutations(r.h.log)
              /\ IF PublisherErrorIsFatal(r.raised)
                 THEN ExitWith(1, {"publish_failed"}, FailedOutputs(outputs, env))
                 ELSE /\ events' = IF failed THEN events \cup {"publish_failed"} ELSE events
                      /\ pc' = "finish"
                      /\ UNCHANGED <<exit_code, outputs>>
    /\ UNCHANGED <<now, env, inspectVars, reportVars, labelVars, userVars, dry_run,
                   enable_assignment, host_repos, publish, org_repos, repositories,
                   scan_index, successful_scans, failed_scans, sleeps>>

\* lines 216-233; the dashboard and the outputs are written or a write raises
Finish ==
    /\ pc = "finish"
    /\ \E write_ok \in BOOLEAN :
          IF write_ok
          THEN ExitWith(0, {},
                        CompletedOutputs(outputs, env, total_repos, successful_scans,
                                         report.summary.compliance_rate, enable_assignment))
          ELSE ExitWith(1, {"output_failed"}, FailedOutputs(outputs, env))
    /\ UNCHANGED <<now, env, inspectVars, reportVars, labelVars, userVars,
                   publishVars, runVars>>

NextMain ==
    \/ Startup
    \/ Validate
    \/ GetOrganization
    \/ Discover
    \/ ScanRepo
    \/ ReportStep
    \/ PublishStep
    \/ Finish

SpecMain == InitMain /\ [][NextMain]_vars

(***************************************************************************)
(* Properties of SpecMain                                                  *)
(***************************************************************************)
\* C8: in a run with DRY_RUN set to 'true' main issues no mutating call to
\* the host (no create_label, no create_issue, no edit) and the labels of
\* the scanned repositories and the admin repository stay as they were.
DryRunMutatesNothing ==
    DryRun(env) =>
        /\ mutations = <<>>
        /\ host_labels = HostLabelsOf(org_repos)
        /\ admin = AdminEmpty

\* a dry run over two non-compliant repositories, one of them with
\* high-priority labels, ran to its end
DryRunCompleted ==
    /\ pc = "exited"
    /\ exit_code = 0
    /\ env.DRY_RUN = EnvTrue
    /\ Len(compliance_issues) = 2
    /\ \E k \in DOMAIN compliance_issues : HasHighPriority(compliance_issues[k])

ClaimedFatal == {"token_missing", "organization_denied", "no_repositories"}
Fatal ==
    {"token_missing", "default_token", "get_user_raises", "organization_denied",
     "repositories_denied", "no_repositories", "output_failed"}

\* C9 as claimed: main exits with a non-zero status exactly when the
\* credential is missing, the organization cannot be accessed or no
\* repository is discovered.
ExitStatusAsClaimed ==
    pc = "exited" => (exit_code # 0 <=> events \cap ClaimedFatal # {})

\* C9, amended: main exits with status 1 exactly when the credential is
\* missing, the credential is the default token of GitHub Actions, the
\* validation of the token fails, the organization cannot be accessed, no
\* repository is discovered or a local output cannot be written; it exits
\* with status 0 otherwise, whatever scans, label creations and issue
\* publications failed.
ExitStatus ==
    pc = "exited" =>
        /\ exit_code \in {0, 1}
        /\ exit_code = 1 <=> events \cap Fatal # {}

\* a run in which a scan, a label creation and an issue publication failed
\* exited with status 0
ExitZeroDespiteFailures ==
    /\ pc = "exited"
    /\ exit_code = 0
    /\ {"scan_failed", "label_failed", "publish_failed"} \subseteq events


\* the owner part of GITHUB_REPOSITORY
RepositoryOwner == SplitFirst(env.GITHUB_REPOSITORY, "/")

\* C14: whenever TARGET_ORG is provided the organization scanned is
\* TARGET_ORG, in GitHub Actions too; the owner of GITHUB_REPOSITORY and
\* then the built-in default are used only when TARGET_ORG is not provided.
TargetOrgIsScanned ==
    (pc # "start" /\ TokenExit(env) = "") =>
        IF env.TARGET_ORG # <<>> THEN org_name = env.TARGET_ORG
        ELSE org_name \in {RepositoryOwner, DefaultOrg}


\* C15: an exception raised while one repository is scanned or labelled
\* never stops the scan loop: each iteration attempts the next repository
\* in discovery order and counts it as a successful or as a failed scan,
\* the loop ends only after the last repository, with
\* successful_scans + failed_scans equal to the number of repositories
\* discovered.
ScanLoopAttemptsEveryRepository ==
    /\ [](pc = "scan" => successful_scans + failed_scans = scan_index - 1)
    /\ [](pc # "scan" => successful_scans + failed_scans = Len(repositories))
    /\ [][pc = "scan" =>
            /\ repo' = repositories[scan_index]
            /\ successful_scans' + failed_scans' = successful_scans + failed_scans + 1
            /\ failed_scans' > failed_scans <=> ~repositories[scan_index].meta_ok
            /\ IF scan_index < Len(repositories)
               THEN pc' = "scan" /\ scan_index' = scan_index + 1
               ELSE pc' = "report"]_vars

\* the scan of the first of three repositories raised and the loop went on
\* to its end
ScanFailedBeforeTheLast ==
    /\ pc = "report"
    /\ Len(repositories) = 3
    /\ ~repositories[1].meta_ok
    /\ failed_scans = 1
    /\ successful_scans = 2


(***************************************************************************)
(* Properties of the report and the outputs of a run of main               *)
(***************************************************************************)
Reported == pc \in {"publish", "finish"} \/ (pc = "exited" /\ report # None)

\* r.pushed_at or r.created_at, read from an entry of the report
LastActivity(entry) == IF entry.last_push # -1 THEN entry.last_push ELSE entry.created_at

\* C24 as claimed: the list of non-compliant repositories in the final
\* report is ordered most-violations-first.
ReportListsMostViolationsFirst ==
    Reported =>
        \A k \in 1..(Len(report.repositories) - 1) :
            Len(report.repositories[k].violations)
                >= Len(report.repositories[k + 1].violations)

\* C24, amended: the list of non-compliant repositories in the final report
\* is ordered most-recently-active-first: of two adjacent entries, the
\* earlier one was last pushed (created, when never pushed) no earlier than
\* the later one.
ReportListsMostRecentlyActiveFirst ==
    Reported =>
        \A k \in 1..(Len(report.repositories) - 1) :
            LastActivity(report.repositories[k])
                >= LastActivity(report.repositories[k + 1])

\* a report whose first entry has fewer violations than its second, the
\* organization having listed the two the other way round
FewerViolationsListedFirst ==
    /\ Reported
    /\ Len(report.repositories) = 2
    /\ Len(report.repositories[1].violations) < Len(report.repositories[2].violations)
    /\ org_repos[1].name = report.repositories[2].name
    /\ org_repos[2].name = report.repositories[1].name

\* the repositories the scan loop is through with
Processed == IF pc = "scan" THEN scan_index - 1 ELSE Len(repositories)

\* C25: during the scan loop a pacing pause occurs after every 10th
\* repository of the iteration, before the next one is processed, whether
\* the scan of that 10th repository succeeded or raised.
PauseAfterEveryTenthRepository ==
    repositories # <<>> => sleeps = Processed \div 10

\* C28: in the report of a run of main, compliant_repositories is the
\* number of repositories that were scanned without error and had zero
\* violations; a repository whose scan raised is never counted as compliant.
CompliantCountsCleanScansOnly ==
    Reported =>
        report.summary.compliant_repositories
            = successful_scans - Len(compliance_issues)

\* the value of a step output, None when the run did not write it
OutputValue(key) ==
    IF \E k \in DOMAIN outputs : outputs[k].key = key
    THEN outputs[CHOOSE k \in DOMAIN outputs : outputs[k].key = key].value
    ELSE None

\* C29: in a GitHub Actions run, the step output 'compliant_repos' equals
\* the report's summary.compliant_repositories, for every mix of compliant,
\* non-compliant and failed repository scans.
CompliantOutputEqualsReport ==
    (pc = "exited" /\ exit_code = 0 /\ IsGithubActions(env)
        /\ env.GITHUB_OUTPUT # <<>>) =>
        OutputValue("compliant_repos")
            = StrInt(report.summary.compliant_repositories)

=============================================================================
